---- MODULE Spec2Model ----
(***************************************************************************)
(* State-machine model of the two-party call translation backend:          *)
(*   src/bidirectional-processor.js  (AdvancedVoiceProcessor, one per leg)  *)
(*   src/server.js                   (room registry, websocket handlers)    *)
(*   src/voice-analyzer.js           (per-leg profile cache)                *)
(* Node runs every handler to its first await without interleaving, so one  *)
(* action is one handler (or one continuation after an await).              *)
(***************************************************************************)
EXTENDS Integers, Sequences, FiniteSets, TLC

\* ------------------------------------------------------------------ universe
\* The websocket connections; server.js builds one processor per connection.
Procs == {"p1", "p2"}
\* Room identifiers that /create-room can hand out.
RoomIds == {"r1", "r2"}
\* The userType values a start event carries.
UserTypes == {"caller", "receiver"}
\* Language tags a start event or a room request carries.
Languages == {"en", "es"}
\* JavaScript null / undefined (both falsy).
Null == "null"
\* this.silenceTimeout when it holds no timer handle (null).
NoTimer == 0
\* this.userId before the first start event (null).
NoUserId == <<>>
\* WebSocket readyState values.
OPEN == 1
CLOSED == 3

\* ---------------------------------------------------------------- constants
maxBufferDuration == 2000
minBufferDuration == 500
\* handleMedia adds this much to bufferDuration per frame.
FrameMs == 20
\* sendToOtherUser's chunkSize.
chunkSize == 160
\* The expired-session sweep's age limit, in ms.
oneHour == 3600000
\* sendToOtherUser's chunk size in the smooth-playback variant of the
\* processor.
chunkSizeSmooth == 320

\* ------------------------------------------------------------------- bounds
\* Frames one leg accepts in the buffering specification.
MaxFrames == 50
\* Frames one leg accepts in the long-stream specification.
MaxFramesLong == 126
\* Frames one leg accepts in the start/restart specification.
MaxFramesStart == 26
\* Frames one leg accepts in the sending specification.
MaxFramesSend == 30
\* Bytes of audio the synthesizer returns in the sending specification.
MaxAudioBytes == 125
\* Encoded payload lengths the chunk loop is run on by itself.
MaxEncoded == 700
\* Analyses of one speaker in the profile specification.
MaxAnalyses == 2
\* Frames of the first bursts of leg p1 in the noise-burst specification, and
\* the frames the leg accepts there in all.
BurstFrames == 10
MaxFramesBurst == 40
\* Bytes of the longest PCM buffer analyzeVoice is called on by itself.
MaxPcmBytes == 60
\* Appends to the first and to the second room+leg key in the translation
\* list specification, the ticks its clock takes and the milliseconds of one
\* of them.
MaxAppends == 52
MaxOtherAppends == 1
MaxClock == 1
ClockMs == 600000
\* Frames one leg accepts in the paced-send specifications.
MaxFramesSmooth == 40
\* Clock ticks the session specification takes.
MaxTicks == 2
\* Milliseconds per clock tick.
TickMs == 3600000

VARIABLES
    activeSessions,  \* server.js activeSessions: a function from the room ids
                     \* it holds to their session records
    now,             \* Date.now(), in ticks
    readyState,      \* ws.readyState of each connection
    outbox,          \* messages sent on each connection's transport, in order
    proc,            \* the fields of each AdvancedVoiceProcessor
    timers,          \* pending setTimeout handles of each leg
    pipes,           \* processBuffer invocations suspended at an await
    voiceProfiles,   \* voiceAnalyzer.voiceProfiles keys of each leg
    lastFlushed,     \* history: the newest frame each leg has handed to a
                     \* pipeline so far (0: none)
    call             \* a helper of the processor or of the voice analyzer
                     \* called on its own: its name, its inputs and what
                     \* it returned

vars == <<activeSessions, now, readyState, outbox, proc, timers, pipes,
          voiceProfiles, lastFlushed, call>>

\* ------------------------------------------------------------------ helpers
RemoveAt(s, i) == [j \in 1..(Len(s) - 1) |-> IF j < i THEN s[j] ELSE s[j + 1]]

RECURSIVE Repeat(_, _)
Repeat(x, n) == IF n = 0 THEN <<>> ELSE <<x>> \o Repeat(x, n - 1)

SeqRange(s) == {s[i] : i \in 1..Len(s)}

CeilDiv(a, b) == (a + b - 1) \div b

\* ------------------------------------------------------------- construction
NewStats ==
    [packetsReceived |-> 0, transcriptions |-> 0, translations |-> 0,
     audiosSent |-> 0, errors |-> 0]

NewProcessor ==
    [roomId |-> Null, userType |-> Null, myLanguage |-> Null,
     streamSid |-> Null, userId |-> NoUserId,
     audioBuffer |-> <<>>, bufferDuration |-> 0,
     isProcessing |-> FALSE, silenceTimeout |-> NoTimer,
     stats |-> NewStats]

NewSession(lang, t) ==
    [creatorLanguage |-> lang, participantLanguage |-> Null,
     creatorConnection |-> Null, participantConnection |-> Null,
     callerConnection |-> Null, receiverConnection |-> Null,
     createdAt |-> t]

\* No helper has been called on its own.
NoCall == [fn |-> "none"]

\* The registry with no room.
NoRooms == [r \in {} |-> NewSession(Null, 0)]

Init ==
    /\ activeSessions = NoRooms
    /\ now = 0
    /\ readyState = [p \in Procs |-> OPEN]
    /\ outbox = [p \in Procs |-> <<>>]
    /\ proc = [p \in Procs |-> NewProcessor]
    /\ timers = [p \in Procs |-> {}]
    /\ pipes = [p \in Procs |-> <<>>]
    /\ voiceProfiles = [p \in Procs |-> {}]
    /\ lastFlushed = [p \in Procs |-> 0]
    /\ call = NoCall

\* ----------------------------------------------------------------- registry
\* Map.set and Map.delete on the registry.
MapSet(sessions, r, session) ==
    [k \in DOMAIN sessions \cup {r} |-> IF k = r THEN session ELSE sessions[k]]

MapDelete(sessions, r) == [k \in DOMAIN sessions \ {r} |-> sessions[k]]

\* Mutant of RegisterIn: attaching a leg also empties the opposite slot.
RegisterInAlone(session, ut, p) ==
    IF ut = "caller"
    THEN [session EXCEPT !.callerConnection = p, !.receiverConnection = Null]
    ELSE [session EXCEPT !.receiverConnection = p, !.callerConnection = Null]

\* registerConnection's slot assignment: "caller" takes callerConnection,
\* every other userType takes receiverConnection.
RegisterIn(session, ut, p) ==
    IF ut = "caller"
    THEN [session EXCEPT !.callerConnection = p]
    ELSE [session EXCEPT !.receiverConnection = p]

\* cleanup's slot reset: it tests for "creator" and writes the creator /
\* participant slots.
DetachFrom(session, ut) ==
    IF ut = "creator"
    THEN [session EXCEPT !.creatorConnection = Null]
    ELSE [session EXCEPT !.participantConnection = Null]

\* Mutant of OtherConnection: the lookup returns the leg's own slot.
OtherConnectionOwn(session, ut) ==
    IF ut = "caller" THEN session.callerConnection
    ELSE session.receiverConnection

\* processBuffer's peer lookup.
OtherConnection(session, ut) ==
    IF ut = "caller" THEN session.receiverConnection
    ELSE session.callerConnection

\* The peer the close handler and /leave-room notify.
OtherSide(session, ut) ==
    IF ut = "caller" THEN session.participantConnection
    ELSE session.creatorConnection

\* The message both server.js handlers send to the other side.
ForceDisconnect == "force-disconnect"

\* outbox after the guarded send of force-disconnect to `other`, the
\* connections' readyState being rs.
NotifyOtherSide(other, rs) ==
    IF other # Null /\ rs[other] = OPEN
    THEN [outbox EXCEPT ![other] = Append(@, ForceDisconnect)]
    ELSE outbox

\* The session age the sweep compares with oneHour.
AgeMs(session) == (now - session.createdAt) * TickMs

\* Mutant of Expired: a session is expired once its age reaches the limit.
ExpiredAtLimit(session) == AgeMs(session) >= oneHour

\* The sweep's test of a session.
Expired(session) == AgeMs(session) > oneHour

\* ----------------------------------------------------------- leg operations
\* this.userId as handleStart builds it: from roomId and userType as they are
\* when the template string is evaluated.
UserIdOf(room, ut) == <<room, ut>>

\* The handle setTimeout returns: one that no pending timer has.
FreshHandle(pending) ==
    CHOOSE h \in 1..(Cardinality(pending) + 1) :
        h \notin pending /\ \A g \in 1..(h - 1) : g \in pending

\* Mutant of MaxDurationReached: the buffer has to exceed the maximum.
MaxDurationExceeded(me) ==
    me.bufferDuration > maxBufferDuration /\ ~me.isProcessing

\* Mutant of MaxDurationReached: the maximum never triggers a flush.
MaxDurationIgnored(me) == FALSE

\* handleMedia's max-duration test.
MaxDurationReached(me) ==
    me.bufferDuration >= maxBufferDuration /\ ~me.isProcessing

\* Mutant of SilenceFlushDue: the buffer has to exceed the minimum.
SilenceFlushAboveMin(me) ==
    /\ Len(me.audioBuffer) > 0
    /\ ~me.isProcessing
    /\ me.bufferDuration > minBufferDuration

\* The silence timer callback's test.
SilenceFlushDue(me) ==
    /\ Len(me.audioBuffer) > 0
    /\ ~me.isProcessing
    /\ me.bufferDuration >= minBufferDuration

\* processBuffer's entry guard (TRUE: the call returns at once).
ProcessBufferSkips(me) ==
    Len(me.audioBuffer) = 0 \/ me.myLanguage = Null \/ me.isProcessing

\* Mutant of SwapOut: the buffer and its duration are not reset.
SwapOutKeepsBuffer(me) ==
    [me EXCEPT !.isProcessing = TRUE, !.silenceTimeout = NoTimer]

\* processBuffer from setting isProcessing to the reset of the buffer.
SwapOut(me) ==
    [me EXCEPT !.isProcessing = TRUE, !.silenceTimeout = NoTimer,
               !.audioBuffer = <<>>, !.bufferDuration = 0]

\* The closure a suspended processBuffer keeps: the swapped-out audio and its
\* duration, the await it is suspended at, the peer it looked up and the
\* peer's language as it read it, and whether translatedText is a
\* translation (TRUE) or the transcript itself.
NewPipe(me) ==
    [segment |-> me.audioBuffer, bufferLengthMs |-> me.bufferDuration,
     pc |-> "transcribe", otherConnection |-> Null,
     otherUserLanguage |-> Null, translated |-> FALSE]

\* processBuffer up to its first await, on the leg record `me` with the
\* pending timers `tm`: the leg, the timers, and the pipeline it started.
ProcessBuffer(me, tm) ==
    IF ProcessBufferSkips(me)
    THEN [me |-> me, timers |-> tm, started |-> FALSE, pipe |-> NewPipe(me)]
    ELSE IF me.bufferDuration < minBufferDuration
    THEN [me |-> [SwapOut(me) EXCEPT !.isProcessing = FALSE],
          timers |-> tm \ {me.silenceTimeout},
          started |-> FALSE, pipe |-> NewPipe(me)]
    ELSE [me |-> SwapOut(me),
          timers |-> tm \ {me.silenceTimeout},
          started |-> TRUE, pipe |-> NewPipe(me)]

\* The state of leg p after a handler that ended in processBuffer.
Flushed(p, r) ==
    /\ proc' = [proc EXCEPT ![p] = r.me]
    /\ timers' = [timers EXCEPT ![p] = r.timers]
    /\ pipes' = [pipes EXCEPT ![p] = IF r.started THEN Append(@, r.pipe) ELSE @]
    /\ voiceProfiles' = [voiceProfiles EXCEPT
                           ![p] = IF r.started THEN @ \cup {r.me.userId} ELSE @]
    /\ lastFlushed' = [lastFlushed EXCEPT
                         ![p] = IF r.started
                                THEN r.pipe.segment[Len(r.pipe.segment)] ELSE @]

\* Mutant of CleanupFields: bufferDuration is not reset.
CleanupFieldsKeepsDuration(me) ==
    [me EXCEPT !.audioBuffer = <<>>,
               !.isProcessing = FALSE, !.silenceTimeout = NoTimer]

\* cleanup's reset of the leg's own fields.
CleanupFields(me) ==
    [me EXCEPT !.audioBuffer = <<>>, !.bufferDuration = 0,
               !.isProcessing = FALSE, !.silenceTimeout = NoTimer]

\* cleanup's effect on the registry `sessions`.
CleanupSessions(sessions, me) ==
    IF me.roomId # Null /\ me.roomId \in DOMAIN sessions
    THEN MapSet(sessions, me.roomId, DetachFrom(sessions[me.roomId], me.userType))
    ELSE sessions

\* cleanup() of leg p, run on the registry `sessions`.
Cleanup(p, sessions) ==
    /\ proc' = [proc EXCEPT ![p] = CleanupFields(@)]
    /\ timers' = [timers EXCEPT ![p] = @ \ {proc[p].silenceTimeout}]
    /\ voiceProfiles' = [voiceProfiles EXCEPT
                           ![p] = IF proc[p].userId # NoUserId
                                  THEN @ \ {proc[p].userId} ELSE @]
    /\ activeSessions' = CleanupSessions(sessions, proc[p])

\* handleStart's assignments to the leg: the stream id of connection p, the
\* userId, then the three custom parameters.
HandleStart(me, p, r, ut, lang) ==
    [me EXCEPT !.streamSid = p,
               !.userId = UserIdOf(me.roomId, me.userType),
               !.roomId = r, !.userType = ut, !.myLanguage = lang]

\* Mutant of RegisterConnection: a room that is absent is created around the
\* leg.
RegisterConnectionCreates(sessions, p, r, ut) ==
    IF r # Null /\ r \in DOMAIN sessions
    THEN MapSet(sessions, r, RegisterIn(sessions[r], ut, p))
    ELSE MapSet(sessions, r, RegisterIn(NewSession(Null, 0), ut, p))

\* registerConnection of leg p, whose roomId is r and userType ut.
RegisterConnection(sessions, p, r, ut) ==
    IF r # Null /\ r \in DOMAIN sessions
    THEN MapSet(sessions, r, RegisterIn(sessions[r], ut, p))
    ELSE sessions

\* ------------------------------------------------------- room HTTP handlers
\* POST /create-room: a new room id with the creator's language.
CreateRoom(r, lang) ==
    /\ r \notin DOMAIN activeSessions
    /\ activeSessions' = MapSet(activeSessions, r, NewSession(lang, now))
    /\ UNCHANGED <<now, readyState, outbox, proc, timers, pipes,
                   voiceProfiles, lastFlushed>>
    /\ UNCHANGED call

\* POST /join-room.
JoinRoom(r, lang) ==
    /\ r \in DOMAIN activeSessions
    /\ activeSessions[r].participantLanguage = Null
    /\ activeSessions' =
         MapSet(activeSessions, r,
                [activeSessions[r] EXCEPT !.participantLanguage = lang])
    /\ UNCHANGED <<now, readyState, outbox, proc, timers, pipes,
                   voiceProfiles, lastFlushed>>
    /\ UNCHANGED call

\* POST /leave-room.
LeaveRoom(r, ut) ==
    /\ r \in DOMAIN activeSessions
    /\ outbox' = NotifyOtherSide(OtherSide(activeSessions[r], ut), readyState)
    /\ activeSessions' = MapDelete(activeSessions, r)
    /\ UNCHANGED <<now, readyState, proc, timers, pipes, voiceProfiles, lastFlushed>>
    /\ UNCHANGED call

\* Time passes.
Tick ==
    /\ now < MaxTicks
    /\ now' = now + 1
    /\ UNCHANGED <<activeSessions, readyState, outbox, proc, timers, pipes,
                   voiceProfiles, lastFlushed>>
    /\ UNCHANGED call

\* The five-minute interval that deletes the sessions older than one hour.
Sweep ==
    /\ \E r \in DOMAIN activeSessions : Expired(activeSessions[r])
    /\ activeSessions' =
         [r \in {k \in DOMAIN activeSessions : ~Expired(activeSessions[k])}
            |-> activeSessions[r]]
    /\ UNCHANGED <<now, readyState, outbox, proc, timers, pipes,
                   voiceProfiles, lastFlushed>>
    /\ UNCHANGED call

\* --------------------------------------------------------- websocket events
\* handleStart followed by registerConnection.
Start(p, r, ut, lang) ==
    /\ readyState[p] = OPEN
    /\ proc' = [proc EXCEPT ![p] = HandleStart(@, p, r, ut, lang)]
    /\ activeSessions' =
         IF lang # Null
         THEN RegisterConnection(activeSessions, p, r, ut)
         ELSE activeSessions
    /\ UNCHANGED <<now, readyState, outbox, timers, pipes, voiceProfiles, lastFlushed>>
    /\ UNCHANGED call

\* Mutant of Media: the pending timer is not cancelled before the next one
\* is armed.
MediaStacks(p, limit) ==
    /\ readyState[p] = OPEN
    /\ proc[p].stats.packetsReceived < limit
    /\ IF proc[p].myLanguage = Null
       THEN UNCHANGED <<proc, timers, pipes, voiceProfiles, lastFlushed>>
       ELSE LET n == proc[p].stats.packetsReceived + 1
                me == [proc[p] EXCEPT
                         !.stats.packetsReceived = n,
                         !.audioBuffer = Append(@, n),
                         !.bufferDuration = @ + FrameMs]
                tm == timers[p]
            IN  IF MaxDurationReached(me)
                THEN Flushed(p, ProcessBuffer(me, tm))
                ELSE /\ proc' = [proc EXCEPT ![p] =
                                   [me EXCEPT !.silenceTimeout = FreshHandle(tm)]]
                     /\ timers' = [timers EXCEPT ![p] = tm \cup {FreshHandle(tm)}]
                     /\ UNCHANGED <<pipes, voiceProfiles, lastFlushed>>
    /\ UNCHANGED <<activeSessions, now, readyState, outbox>>
    /\ UNCHANGED call

\* handleMedia of one 20 ms frame, while the leg has accepted fewer than
\* `limit` frames.
Media(p, limit) ==
    /\ readyState[p] = OPEN
    /\ proc[p].stats.packetsReceived < limit
    /\ IF proc[p].myLanguage = Null
       THEN UNCHANGED <<proc, timers, pipes, voiceProfiles, lastFlushed>>
       ELSE LET n == proc[p].stats.packetsReceived + 1
                me == [proc[p] EXCEPT
                         !.stats.packetsReceived = n,
                         !.audioBuffer = Append(@, n),
                         !.bufferDuration = @ + FrameMs]
                tm == timers[p] \ {proc[p].silenceTimeout}
            IN  IF MaxDurationReached(me)
                THEN Flushed(p, ProcessBuffer(me, tm))
                ELSE /\ proc' = [proc EXCEPT ![p] =
                                   [me EXCEPT !.silenceTimeout = FreshHandle(tm)]]
                     /\ timers' = [timers EXCEPT ![p] = tm \cup {FreshHandle(tm)}]
                     /\ UNCHANGED <<pipes, voiceProfiles, lastFlushed>>
    /\ UNCHANGED <<activeSessions, now, readyState, outbox>>
    /\ UNCHANGED call

\* The silence timer h of leg p fires.
TimerFire(p, h) ==
    /\ h \in timers[p]
    /\ IF SilenceFlushDue(proc[p])
       THEN Flushed(p, ProcessBuffer(proc[p], timers[p] \ {h}))
       ELSE /\ timers' = [timers EXCEPT ![p] = @ \ {h}]
            /\ UNCHANGED <<proc, pipes, voiceProfiles, lastFlushed>>
    /\ UNCHANGED <<activeSessions, now, readyState, outbox>>
    /\ UNCHANGED call

\* handleStop: clearTimeout and cleanup.
Stop(p) ==
    /\ readyState[p] = OPEN
    /\ Cleanup(p, activeSessions)
    /\ UNCHANGED <<now, readyState, outbox, pipes, lastFlushed>>
    /\ UNCHANGED call

\* ws.on("error"): cleanup.
WsError(p) ==
    /\ readyState[p] = OPEN
    /\ Cleanup(p, activeSessions)
    /\ UNCHANGED <<now, readyState, outbox, pipes, lastFlushed>>
    /\ UNCHANGED call

\* ws.on("close"): notify the other side, delete the room, cleanup.
WsClose(p) ==
    /\ readyState[p] = OPEN
    /\ readyState' = [readyState EXCEPT ![p] = CLOSED]
    /\ IF proc[p].roomId = Null \/ proc[p].userType = Null
          \/ proc[p].roomId \notin DOMAIN activeSessions
       THEN /\ Cleanup(p, activeSessions)
            /\ UNCHANGED outbox
       ELSE /\ outbox' = NotifyOtherSide(
                           OtherSide(activeSessions[proc[p].roomId],
                                     proc[p].userType),
                           readyState')
            /\ Cleanup(p, MapDelete(activeSessions, proc[p].roomId))
    /\ UNCHANGED <<now, pipes, lastFlushed>>
    /\ UNCHANGED call

\* -------------------------------------------------------------- decodeMulaw
\* decodeMulaw's MULAW_BIAS, 0x84.
MULAW_BIAS == 132

\* The low eight bits of ~mulaw for a byte: the only bits the masks of
\* mulawToLinear read.
Complement(mulaw) == 255 - mulaw

\* Mutant of MulawToLinear: the mantissa is shifted one bit further.
MulawToLinearWide(mulaw) ==
    LET inv == Complement(mulaw)
        sign == (inv \div 128) % 2
        exponent == (inv \div 16) % 8
        mantissa == inv % 16
        shifted == mantissa * 2^(exponent + 4) + MULAW_BIAS * 2^exponent
        sample == IF exponent = 0 THEN shifted + MULAW_BIAS ELSE shifted
    IN  IF sign = 1 THEN -sample ELSE sample

\* mulawToLinear: the 16-bit sample decodeMulaw writes for one byte.
MulawToLinear(mulaw) ==
    LET inv == Complement(mulaw)
        sign == (inv \div 128) % 2
        exponent == (inv \div 16) % 8
        mantissa == inv % 16
        shifted == mantissa * 2^(exponent + 3) + MULAW_BIAS * 2^exponent
        sample == IF exponent = 0 THEN shifted + MULAW_BIAS ELSE shifted
    IN  IF sign = 1 THEN -sample ELSE sample

\* decodeMulaw on a buffer of one byte.
DecodeMulaw(mulaw) ==
    /\ call' = [fn |-> "decodeMulaw", byte |-> mulaw,
                pcm |-> MulawToLinear(mulaw)]
    /\ UNCHANGED <<activeSessions, now, readyState, outbox, proc, timers,
                   pipes, voiceProfiles, lastFlushed>>

\* ------------------------------------------------- voice analyzer: profile
\* JavaScript numbers are IEEE-754 binary64. A magnitude is held here as a
\* multiple of 2^-54 in three limbs of 20 bits, least significant first;
\* every value updateProfile's pitch expression meets is below 2^60 units.
Limb == 2^20

\* The literal 0.7 as a binary64 (6305039478318694 * 2^-53), in units.
Point7 == <<838860, 838860, 11468>>

\* The literal 0.3 as a binary64 (5404319552844595 * 2^-54), in units.
Point3 == <<209715, 209715, 4915>>

\* Exact product of a magnitude and a small natural number.
MagTimes(a, k) ==
    LET t0 == a[1] * k
        t1 == a[2] * k + t0 \div Limb
        t2 == a[3] * k + t1 \div Limb
    IN  <<t0 % Limb, t1 % Limb, t2>>

\* Exact sum of two magnitudes.
MagPlus(a, b) ==
    LET t0 == a[1] + b[1]
        t1 == a[2] + b[2] + t0 \div Limb
        t2 == a[3] + b[3] + t1 \div Limb
    IN  <<t0 % Limb, t1 % Limb, t2>>

\* Exact difference of two magnitudes, the first not below the second.
MagMinus(a, b) ==
    LET t0 == a[1] - b[1]
        t1 == a[2] - b[2] - (IF t0 < 0 THEN 1 ELSE 0)
        t2 == a[3] - b[3] - (IF t1 < 0 THEN 1 ELSE 0)
    IN  <<t0 % Limb, t1 % Limb, t2>>

MagLess(a, b) ==
    \/ a[3] < b[3]
    \/ a[3] = b[3] /\ a[2] < b[2]
    \/ a[3] = b[3] /\ a[2] = b[2] /\ a[1] < b[1]

\* The bits a magnitude has beyond the 53 of a binary64 significand.
ExcessBits(a) ==
    CHOOSE d \in 0..7 : /\ a[3] < 2^(13 + d)
                        /\ d > 0 => a[3] >= 2^(12 + d)

\* Rounding of an exact result to binary64: to nearest, ties to even.
RoundToDouble(a) ==
    LET unit == 2^ExcessBits(a)
        r == a[1] % unit
        kept == <<a[1] - r, a[2], a[3]>>
        odd == (a[1] \div unit) % 2 = 1
    IN  IF 2 * r > unit \/ (2 * r = unit /\ odd)
        THEN MagPlus(kept, <<unit, 0, 0>>)
        ELSE kept

\* pitch * literal, as the binary64 multiplication gives it.
DoubleTimes(pitch, literal) ==
    [neg |-> pitch < 0,
     mag |-> RoundToDouble(MagTimes(literal, IF pitch < 0 THEN -pitch ELSE pitch))]

\* x + y, as the binary64 addition gives it.
DoublePlus(x, y) ==
    IF x.neg = y.neg
    THEN [neg |-> x.neg, mag |-> RoundToDouble(MagPlus(x.mag, y.mag))]
    ELSE IF MagLess(x.mag, y.mag)
    THEN [neg |-> y.neg, mag |-> RoundToDouble(MagMinus(y.mag, x.mag))]
    ELSE [neg |-> x.neg /\ x.mag # y.mag,
          mag |-> RoundToDouble(MagMinus(x.mag, y.mag))]

\* Math.round: the nearest integer, a tie going up.
MathRound(x) ==
    LET whole == x.mag[3] \div 2^14
        half == (x.mag[3] \div 2^13) % 2 = 1
        rest == x.mag[3] % 2^13 # 0 \/ x.mag[2] # 0 \/ x.mag[1] # 0
    IN  IF x.neg
        THEN -(whole + (IF half /\ rest THEN 1 ELSE 0))
        ELSE whole + (IF half THEN 1 ELSE 0)

\* Mutant of SmoothPitch: the weights are swapped.
SmoothPitchSwapped(existing, new) ==
    MathRound(DoublePlus(DoubleTimes(existing, Point3), DoubleTimes(new, Point7)))

\* updateProfile's pitch for a speaker with a cached profile.
SmoothPitch(existing, new) ==
    MathRound(DoublePlus(DoubleTimes(existing, Point7), DoubleTimes(new, Point3)))

\* A JavaScript number that is not NaN (speeds are held in hundredths), and
\* NaN.
Finite(x) == [nan |-> FALSE, value |-> x]

NaN == [nan |-> TRUE, value |-> 0]

\* updateProfile's energy for a speaker with a cached profile: the same
\* expression as the pitch's; with a NaN operand the sum and its Math.round
\* are NaN.
SmoothEnergy(existing, new) ==
    IF existing.nan \/ new.nan
    THEN NaN
    ELSE Finite(MathRound(DoublePlus(DoubleTimes(existing.value, Point7),
                                     DoubleTimes(new.value, Point3))))

\* No cached profile. (Of a cache entry the model keeps pitch, energy and
\* samples.)
NoProfile == [pitch |-> 0, energy |-> Finite(0), samples |-> 0]

\* updateProfile on the speaker's cache entry.
UpdateProfile(existing, newProfile) ==
    IF existing.samples > 0
    THEN [pitch |-> SmoothPitch(existing.pitch, newProfile.pitch),
          energy |-> SmoothEnergy(existing.energy, newProfile.energy),
          samples |-> existing.samples + 1]
    ELSE [pitch |-> newProfile.pitch, energy |-> newProfile.energy,
          samples |-> 1]

\* The pitches detectPitch can return.
Pitches == (-20)..20

\* Energies detectEnergy returns: the quietest and the loudest, and that of
\* normal volume.
Energies == {-10, 0, 10}

\* detectGender.
DetectGender(pitch) == IF pitch < 0 THEN "male" ELSE "female"

\* getDefaultProfile.
DefaultProfile ==
    [pitch |-> 0, speed |-> Finite(100), energy |-> Finite(0),
     gender |-> "neutral"]

\* The cache entry of the speaker and the pitches analysed so far, as the
\* calls of analyzeVoice made up to now have left them.
CachedSoFar == IF call.fn = "none" THEN NoProfile ELSE call.cached

AnalysedSoFar == IF call.fn = "none" THEN <<>> ELSE call.analysed

\* analyzeVoice for one speaker on audio spoken at normal speed whose
\* detected pitch is `pitch` and whose detected energy is `energy`: the
\* cache entry of the speaker is updated and the profile just built is
\* returned.
AnalyzeVoice(pitch, energy) ==
    /\ call.fn \in {"none", "analyzeVoice"}
    /\ Len(AnalysedSoFar) < MaxAnalyses
    /\ LET profile == [pitch |-> pitch, speed |-> Finite(100),
                       energy |-> energy, gender |-> DetectGender(pitch)]
       IN  call' = [fn |-> "analyzeVoice",
                    before |-> CachedSoFar,
                    cached |-> UpdateProfile(CachedSoFar, profile),
                    analysed |-> Append(AnalysedSoFar, pitch),
                    threw |-> FALSE,
                    returned |-> profile]
    /\ UNCHANGED <<activeSessions, now, readyState, outbox, proc, timers,
                   pipes, voiceProfiles, lastFlushed>>

\* --------------------------------------------- voice analyzer: detectPitch
\* detectPitch's sampleRate.
sampleRate == 8000

\* detectPitch's minPeriod, floor(sampleRate / 500), and maxPeriod,
\* floor(sampleRate / 50).
minPeriod == sampleRate \div 500

maxPeriod == sampleRate \div 50

\* frequency < hz for frequency = sampleRate / period.
FrequencyBelow(period, hz) == sampleRate < hz * period

\* Mutant of LowToMid: the adjustment falls as the frequency rises.
LowToMidFalling(period) ==
    [num |-> -5 * (45 * period) - (sampleRate - 120 * period) * 5,
     den |-> 45 * period]

\* -10 + ((frequency - 85) / 35) * 10, as a fraction.
VeryLow(period) ==
    [num |-> -10 * (35 * period) + (sampleRate - 85 * period) * 10,
     den |-> 35 * period]

\* -5 + ((frequency - 120) / 45) * 5, as a fraction.
LowToMid(period) ==
    [num |-> -5 * (45 * period) + (sampleRate - 120 * period) * 5,
     den |-> 45 * period]

\* 0 + ((frequency - 165) / 45) * 10, as a fraction.
MidToHigh(period) ==
    [num |-> (sampleRate - 165 * period) * 10, den |-> 45 * period]

\* 10 + ((frequency - 210) / 45) * 10, as a fraction.
High(period) ==
    [num |-> 10 * (45 * period) + (sampleRate - 210 * period) * 10,
     den |-> 45 * period]

\* Math.round of a fraction with a positive denominator. (For every period
\* the binary64 value of the adjustment rounds as the exact one does: none
\* is within rounding error of a tie.)
RoundFraction(q) == (2 * q.num + q.den) \div (2 * q.den)

Clamp(lo, hi, x) == IF x < lo THEN lo ELSE IF x > hi THEN hi ELSE x

\* detectPitch from the best period on: the frequency, its band, the
\* adjustment, rounded and clamped.
PitchOfPeriod(period) ==
    Clamp(-20, 20,
          RoundFraction(IF FrequencyBelow(period, 120) THEN VeryLow(period)
                        ELSE IF FrequencyBelow(period, 165) THEN LowToMid(period)
                        ELSE IF FrequencyBelow(period, 210) THEN MidToHigh(period)
                        ELSE High(period)))

\* detectPitch on audio whose best autocorrelation period is `period`.
DetectPitch(period) ==
    /\ call' = [fn |-> "detectPitch", period |-> period,
                pitch |-> PitchOfPeriod(period)]
    /\ UNCHANGED <<activeSessions, now, readyState, outbox, proc, timers,
                   pipes, voiceProfiles, lastFlushed>>

\* --------------------------------------- voice analyzer: buffers of silence
\* Buffer.readInt16LE throws when fewer than two bytes are left at the
\* offset: the sample loops, which step by two, throw on a buffer of odd
\* length.
ReadThrows(len) == len % 2 = 1

\* detectPitch on silence: no period has a positive correlation and
\* bestPeriod stays minPeriod, also when there is no sample at all.
DetectPitchSilent == PitchOfPeriod(minPeriod)

\* detectSpeed on len bytes of silence: there is no zero crossing, and
\* crossingRate is 0 / durationSeconds, NaN for the empty buffer. NaN fails
\* both comparisons, the last branch adds to it and Math.min and Math.max
\* return it; a rate of 0 gives 0.8.
DetectSpeedSilent(len) == IF len = 0 THEN NaN ELSE Finite(80)

\* detectEnergy on len bytes of silence: rms is the square root of
\* 0 / sampleCount, NaN for the empty buffer. NaN fails both comparisons and
\* goes through the last branch, Math.round and the clamp; an rms of 0
\* gives 5.
DetectEnergySilent(len) == IF len = 0 THEN NaN ELSE Finite(5)

\* analyzeVoice for one speaker on a PCM buffer of len bytes of silence: the
\* profile is built, cached and returned, or a helper throws and the catch
\* returns the default profile.
AnalyzeSilence(len) ==
    /\ call.fn \in {"none", "analyzeVoice"}
    /\ Len(AnalysedSoFar) < MaxAnalyses
    /\ LET profile == [pitch |-> DetectPitchSilent,
                       speed |-> DetectSpeedSilent(len),
                       energy |-> DetectEnergySilent(len),
                       gender |-> DetectGender(DetectPitchSilent)]
       IN  call' = IF ReadThrows(len)
                   THEN [fn |-> "analyzeVoice", bytes |-> len,
                         before |-> CachedSoFar,
                         cached |-> CachedSoFar,
                         analysed |-> AnalysedSoFar,
                         threw |-> TRUE,
                         returned |-> DefaultProfile]
                   ELSE [fn |-> "analyzeVoice", bytes |-> len,
                         before |-> CachedSoFar,
                         cached |-> UpdateProfile(CachedSoFar, profile),
                         analysed |-> Append(AnalysedSoFar, profile.pitch),
                         threw |-> FALSE,
                         returned |-> profile]
    /\ UNCHANGED <<activeSessions, now, readyState, outbox, proc, timers,
                   pipes, voiceProfiles, lastFlushed>>

\* ------------------------------------------- processBuffer after its awaits
\* What the speech client's answer amounts to in transcribeAudioEnhanced:
\* no result or an error (null), a transcript shorter than 2 characters, or
\* a usable transcript.
Transcripts == {"none", "short", "text"}

\* Byte lengths of the audio the synthesizer returns.
AudioSizes == {3, 121}

\* Length of Buffer.toString("base64") for n bytes.
Base64Length(n) == 4 * CeilDiv(n, 3)

\* Mutant of Finally: isProcessing is left as it is.
FinallyKeepsBusy(me) == me

\* The finally block of processBuffer.
Finally(me) == [me EXCEPT !.isProcessing = FALSE]

\* A processBuffer invocation returns: its finally block runs and its closure
\* is gone.
Exit(p, i, me) ==
    /\ proc' = [proc EXCEPT ![p] = Finally(me)]
    /\ pipes' = [pipes EXCEPT ![p] = RemoveAt(@, i)]

\* translateText answers without calling the translation client: the two
\* languages are the same, or fromLanguage is missing and split throws into
\* its catch.
TranslatesLocally(from, to) == from = Null \/ from = to

\* Mutant of ChunkLoop: the loop also runs when i has reached the length.
RECURSIVE ChunkLoopInclusive(_, _, _)
ChunkLoopInclusive(i, len, size) ==
    IF i <= len
    THEN <<"media">> \o ChunkLoopInclusive(i + size, len, size)
    ELSE <<>>

\* sendToOtherUser's loop from index i over an encoded payload of length
\* len: one media message per slice of at most `size` characters.
RECURSIVE ChunkLoop(_, _, _)
ChunkLoop(i, len, size) ==
    IF i < len
    THEN <<"media">> \o ChunkLoop(i + size, len, size)
    ELSE <<>>

\* The messages sendToOtherUser puts on an open transport for n audio bytes.
AudioMessages(n) == ChunkLoop(0, Base64Length(n), chunkSize) \o <<"mark">>

\* Mutant of SendToOtherUser: the transport's state is not looked at.
SendToOtherUserUnchecked(p, i, me, n, other) ==
    /\ outbox' = [outbox EXCEPT ![other] = @ \o AudioMessages(n)]
    /\ Exit(p, i, [me EXCEPT !.stats.audiosSent = @ + 1])

\* sendToOtherUser followed by processBuffer's return.
SendToOtherUser(p, i, me, n, other) ==
    IF other = Null \/ readyState[other] # OPEN
    THEN /\ Exit(p, i, me)
         /\ UNCHANGED outbox
    ELSE /\ outbox' = [outbox EXCEPT ![other] = @ \o AudioMessages(n)]
         /\ Exit(p, i, [me EXCEPT !.stats.audiosSent = @ + 1])

\* speechClient.recognize settles: processBuffer runs on to its return or to
\* the next await.
TranscribeDone(p, i, transcript) ==
    /\ i \in 1..Len(pipes[p])
    /\ pipes[p][i].pc = "transcribe"
    /\ LET me == proc[p]
           heard == [me EXCEPT !.stats.transcriptions = @ + 1]
           other == IF me.roomId \in DOMAIN activeSessions
                    THEN OtherConnection(activeSessions[me.roomId], me.userType)
                    ELSE Null
       IN  IF transcript # "text"
           THEN Exit(p, i, me)
           ELSE IF other = Null
           THEN Exit(p, i, heard)
           ELSE IF proc[other].myLanguage = Null
           THEN Exit(p, i, heard)
           ELSE IF TranslatesLocally(me.myLanguage, proc[other].myLanguage)
           THEN /\ proc' = [proc EXCEPT ![p] =
                              [heard EXCEPT !.stats.translations = @ + 1]]
                /\ pipes' = [pipes EXCEPT ![p][i] =
                               [@ EXCEPT !.pc = "synthesize",
                                         !.otherConnection = other,
                                         !.otherUserLanguage =
                                             proc[other].myLanguage]]
           ELSE /\ proc' = [proc EXCEPT ![p] = heard]
                /\ pipes' = [pipes EXCEPT ![p][i] =
                               [@ EXCEPT !.pc = "translate",
                                         !.otherConnection = other,
                                         !.otherUserLanguage =
                                             proc[other].myLanguage]]
    /\ UNCHANGED <<activeSessions, now, readyState, outbox, timers,
                   voiceProfiles, lastFlushed>>
    /\ UNCHANGED call

\* Mutant of TranslateDone: a rejected translation ends the flush and is
\* counted as an error.
TranslateDoneFatal(p, i, ok) ==
    /\ i \in 1..Len(pipes[p])
    /\ pipes[p][i].pc = "translate"
    /\ IF ok
       THEN /\ proc' = [proc EXCEPT ![p].stats.translations = @ + 1]
            /\ pipes' = [pipes EXCEPT ![p][i] =
                           [@ EXCEPT !.pc = "synthesize", !.translated = TRUE]]
       ELSE Exit(p, i, [proc[p] EXCEPT !.stats.errors = @ + 1])
    /\ UNCHANGED <<activeSessions, now, readyState, outbox, timers,
                   voiceProfiles, lastFlushed>>
    /\ UNCHANGED call

\* translateClient.translate settles (ok) or rejects: translateText returns
\* the translation or the original text, and processBuffer calls the
\* synthesizer.
TranslateDone(p, i, ok) ==
    /\ i \in 1..Len(pipes[p])
    /\ pipes[p][i].pc = "translate"
    /\ proc' = [proc EXCEPT ![p].stats.translations = @ + 1]
    /\ pipes' = [pipes EXCEPT ![p][i] =
                   [@ EXCEPT !.pc = "synthesize", !.translated = ok]]
    /\ UNCHANGED <<activeSessions, now, readyState, outbox, timers,
                   voiceProfiles, lastFlushed>>
    /\ UNCHANGED call

\* ttsClient.synthesizeSpeech of generateHumanLikeSpeech settles with n bytes
\* of audio, or rejects (n = 0) and generateSimpleSpeech is called.
SynthesizeDone(p, i, n) ==
    /\ i \in 1..Len(pipes[p])
    /\ pipes[p][i].pc = "synthesize"
    /\ IF n = 0
       THEN /\ pipes' = [pipes EXCEPT ![p][i].pc = "fallback"]
            /\ UNCHANGED <<proc, outbox>>
       ELSE SendToOtherUser(p, i, proc[p], n, pipes[p][i].otherConnection)
    /\ UNCHANGED <<activeSessions, now, readyState, timers, voiceProfiles, lastFlushed>>
    /\ UNCHANGED call

\* ttsClient.synthesizeSpeech of generateSimpleSpeech settles with n bytes of
\* audio, or rejects (n = 0): generateHumanLikeSpeech returns null.
FallbackDone(p, i, n) ==
    /\ i \in 1..Len(pipes[p])
    /\ pipes[p][i].pc = "fallback"
    /\ IF n = 0
       THEN /\ Exit(p, i, proc[p])
            /\ UNCHANGED outbox
       ELSE SendToOtherUser(p, i, proc[p], n, pipes[p][i].otherConnection)
    /\ UNCHANGED <<activeSessions, now, readyState, timers, voiceProfiles, lastFlushed>>
    /\ UNCHANGED call

\* Mutant of SentBeforeThrow: the loop goes on after the send that throws.
SentBeforeThrowResumes(n, k) == RemoveAt(AudioMessages(n), k)

\* The messages on the transport when the k-th ws.send of sendToOtherUser
\* throws, for n audio bytes: those sent before it.
SentBeforeThrow(n, k) == SubSeq(AudioMessages(n), 1, k - 1)

\* The synthesizer (or the fallback synthesizer) of a suspended processBuffer
\* settles with n bytes of audio and the k-th ws.send of sendToOtherUser
\* throws: its catch logs the error, it returns and so does processBuffer.
SendThrows(p, i, n, k) ==
    /\ i \in 1..Len(pipes[p])
    /\ pipes[p][i].pc \in {"synthesize", "fallback"}
    /\ pipes[p][i].otherConnection # Null
    /\ readyState[pipes[p][i].otherConnection] = OPEN
    /\ k \in 1..Len(AudioMessages(n))
    /\ outbox' = [outbox EXCEPT ![pipes[p][i].otherConnection] =
                    @ \o SentBeforeThrow(n, k)]
    /\ Exit(p, i, proc[p])
    /\ UNCHANGED <<activeSessions, now, readyState, timers, voiceProfiles, lastFlushed>>
    /\ UNCHANGED call

\* The index of a suspended processBuffer of leg p.
Suspended(p) == 1..Len(pipes[p])

\* One continuation of a suspended processBuffer of leg p.
PipelineStep(p) ==
    \/ \E i \in Suspended(p), t \in Transcripts : TranscribeDone(p, i, t)
    \/ \E i \in Suspended(p), ok \in BOOLEAN : TranslateDone(p, i, ok)
    \/ \E i \in Suspended(p), n \in AudioSizes \cup {0} : SynthesizeDone(p, i, n)
    \/ \E i \in Suspended(p), n \in AudioSizes \cup {0} : FallbackDone(p, i, n)

\* ------------------------------------ the smooth-playback processor variant
\* The variant's buffer limits, and the number of chunks after which its
\* sendToOtherUser awaits a 5 ms timer.
maxBufferDurationSmooth == 1500

minBufferDurationSmooth == 400

PauseEvery == 10

\* Byte lengths of the audio the variant's synthesizer returns: one chunk,
\* and ten chunks and one more.
AudioSizesSmooth == {240, 2403}

\* The variant's handleMedia and timer tests. (The variant writes
\* isCurrentlyProcessing wherever it writes isProcessing, with the same
\* value: the model keeps the one field isProcessing for the two.)
MaxDurationReachedSmooth(me) ==
    me.bufferDuration >= maxBufferDurationSmooth /\ ~me.isProcessing

SilenceFlushDueSmooth(me) ==
    /\ Len(me.audioBuffer) > 0
    /\ ~me.isProcessing
    /\ me.bufferDuration >= minBufferDurationSmooth

\* The variant's processBuffer up to its first await.
ProcessBufferSmooth(me, tm) ==
    IF ProcessBufferSkips(me)
    THEN [me |-> me, timers |-> tm, started |-> FALSE, pipe |-> NewPipe(me)]
    ELSE IF me.bufferDuration < minBufferDurationSmooth
    THEN [me |-> [SwapOut(me) EXCEPT !.isProcessing = FALSE],
          timers |-> tm \ {me.silenceTimeout},
          started |-> FALSE, pipe |-> NewPipe(me)]
    ELSE [me |-> SwapOut(me),
          timers |-> tm \ {me.silenceTimeout},
          started |-> TRUE, pipe |-> NewPipe(me)]

\* The state of leg p after a handler of the variant that ended in
\* processBuffer: the variant takes its voice profile from a field of the
\* leg and writes nothing to the analyzer's cache.
FlushedSmooth(p, r) ==
    /\ proc' = [proc EXCEPT ![p] = r.me]
    /\ timers' = [timers EXCEPT ![p] = r.timers]
    /\ pipes' = [pipes EXCEPT ![p] = IF r.started THEN Append(@, r.pipe) ELSE @]
    /\ lastFlushed' = [lastFlushed EXCEPT
                         ![p] = IF r.started
                                THEN r.pipe.segment[Len(r.pipe.segment)] ELSE @]
    /\ UNCHANGED voiceProfiles

\* The variant's handleMedia of one 20 ms frame.
MediaSmooth(p, limit) ==
    /\ readyState[p] = OPEN
    /\ proc[p].stats.packetsReceived < limit
    /\ IF proc[p].myLanguage = Null
       THEN UNCHANGED <<proc, timers, pipes, voiceProfiles, lastFlushed>>
       ELSE LET n == proc[p].stats.packetsReceived + 1
                me == [proc[p] EXCEPT
                         !.stats.packetsReceived = n,
                         !.audioBuffer = Append(@, n),
                         !.bufferDuration = @ + FrameMs]
                tm == timers[p] \ {proc[p].silenceTimeout}
            IN  IF MaxDurationReachedSmooth(me)
                THEN FlushedSmooth(p, ProcessBufferSmooth(me, tm))
                ELSE /\ proc' = [proc EXCEPT ![p] =
                                   [me EXCEPT !.silenceTimeout = FreshHandle(tm)]]
                     /\ timers' = [timers EXCEPT ![p] = tm \cup {FreshHandle(tm)}]
                     /\ UNCHANGED <<pipes, voiceProfiles, lastFlushed>>
    /\ UNCHANGED <<activeSessions, now, readyState, outbox>>
    /\ UNCHANGED call

\* The variant's silence timer h of leg p fires.
TimerFireSmooth(p, h) ==
    /\ h \in timers[p]
    /\ IF SilenceFlushDueSmooth(proc[p])
       THEN FlushedSmooth(p, ProcessBufferSmooth(proc[p], timers[p] \ {h}))
       ELSE /\ timers' = [timers EXCEPT ![p] = @ \ {h}]
            /\ UNCHANGED <<proc, pipes, voiceProfiles, lastFlushed>>
    /\ UNCHANGED <<activeSessions, now, readyState, outbox>>
    /\ UNCHANGED call

\* The variant's cleanup resets the slot registerConnection wrote.
DetachFromSmooth(session, ut) ==
    IF ut = "caller"
    THEN [session EXCEPT !.callerConnection = Null]
    ELSE [session EXCEPT !.receiverConnection = Null]

\* The variant's cleanup() of leg p, run on the registry `sessions`.
CleanupSmooth(p, sessions) ==
    /\ proc' = [proc EXCEPT ![p] = CleanupFields(@)]
    /\ timers' = [timers EXCEPT ![p] = @ \ {proc[p].silenceTimeout}]
    /\ voiceProfiles' = [voiceProfiles EXCEPT
                           ![p] = IF proc[p].userId # NoUserId
                                  THEN @ \ {proc[p].userId} ELSE @]
    /\ activeSessions' =
         IF proc[p].roomId # Null /\ proc[p].roomId \in DOMAIN sessions
         THEN MapSet(sessions, proc[p].roomId,
                     DetachFromSmooth(sessions[proc[p].roomId], proc[p].userType))
         ELSE sessions

\* The variant's handleStop.
StopSmooth(p) ==
    /\ readyState[p] = OPEN
    /\ CleanupSmooth(p, activeSessions)
    /\ UNCHANGED <<now, readyState, outbox, pipes, lastFlushed>>
    /\ UNCHANGED call

\* ws.on("close") with the variant as the processor.
WsCloseSmooth(p) ==
    /\ readyState[p] = OPEN
    /\ readyState' = [readyState EXCEPT ![p] = CLOSED]
    /\ IF proc[p].roomId = Null \/ proc[p].userType = Null
          \/ proc[p].roomId \notin DOMAIN activeSessions
       THEN /\ CleanupSmooth(p, activeSessions)
            /\ UNCHANGED outbox
       ELSE /\ outbox' = NotifyOtherSide(
                           OtherSide(activeSessions[proc[p].roomId],
                                     proc[p].userType),
                           readyState')
            /\ CleanupSmooth(p, MapDelete(activeSessions, proc[p].roomId))
    /\ UNCHANGED <<now, pipes, lastFlushed>>
    /\ UNCHANGED call

\* The utterance a suspended processBuffer carries, named by the newest frame
\* of its segment, and the two messages sendToOtherUser builds for it.
UtteranceOf(pipe) == pipe.segment[Len(pipe.segment)]

MediaMessage(u) == [event |-> "media", utterance |-> u]

MarkMessage(u) == [event |-> "mark", utterance |-> u]

\* The chunks of n audio bytes in the variant.
ChunksOf(n) == CeilDiv(Base64Length(n), chunkSizeSmooth)

\* chunkCount when the loop, having sent `sent` chunks, next awaits or ends.
NextStop(sent, total) ==
    IF PauseEvery * (sent \div PauseEvery + 1) <= total
    THEN PauseEvery * (sent \div PauseEvery + 1)
    ELSE total

\* The closure of a sendToOtherUser suspended at its 5 ms timer.
PausedPipe(pipe, n, count) ==
    [segment |-> pipe.segment, bufferLengthMs |-> pipe.bufferLengthMs,
     pc |-> "pause", otherConnection |-> pipe.otherConnection,
     otherUserLanguage |-> pipe.otherUserLanguage,
     translated |-> pipe.translated,
     audioBytes |-> n, chunkCount |-> count]

\* The variant's send loop from chunkCount = sent to its next await, or to
\* the mark, the counter and processBuffer's return.
PacedLoop(p, i, n, sent) ==
    LET pipe == pipes[p][i]
        other == pipe.otherConnection
        stop == NextStop(sent, ChunksOf(n))
        medias == Repeat(MediaMessage(UtteranceOf(pipe)), stop - sent)
    IN  IF sent < ChunksOf(n) /\ stop % PauseEvery = 0
        THEN /\ outbox' = [outbox EXCEPT ![other] = @ \o medias]
             /\ pipes' = [pipes EXCEPT ![p][i] = PausedPipe(pipe, n, stop)]
             /\ UNCHANGED proc
        ELSE /\ outbox' = [outbox EXCEPT ![other] =
                             @ \o medias \o <<MarkMessage(UtteranceOf(pipe))>>]
             /\ Exit(p, i, [proc[p] EXCEPT !.stats.audiosSent = @ + 1])

\* The variant's ttsClient.synthesizeSpeech settles with n bytes of audio and
\* sendToOtherUser runs to its first await or to its end, or the synthesis
\* rejects (n = 0) and processBuffer returns.
SynthesizeDoneSmooth(p, i, n) ==
    /\ i \in 1..Len(pipes[p])
    /\ pipes[p][i].pc = "synthesize"
    /\ IF \/ n = 0
          \/ pipes[p][i].otherConnection = Null
          \/ readyState[pipes[p][i].otherConnection] # OPEN
       THEN /\ Exit(p, i, proc[p])
            /\ UNCHANGED outbox
       ELSE PacedLoop(p, i, n, 0)
    /\ UNCHANGED <<activeSessions, now, readyState, timers, voiceProfiles, lastFlushed>>
    /\ UNCHANGED call

\* The 5 ms timer of a suspended sendToOtherUser fires: the loop goes on
\* without looking at the transport's state. On a transport that is not
\* open ws.send either throws (the catch ends the send) or takes the
\* message and drops it.
PauseDone(p, i, throws) ==
    /\ i \in 1..Len(pipes[p])
    /\ pipes[p][i].pc = "pause"
    /\ throws => readyState[pipes[p][i].otherConnection] # OPEN
    /\ IF throws
       THEN /\ Exit(p, i, proc[p])
            /\ UNCHANGED outbox
       ELSE PacedLoop(p, i, pipes[p][i].audioBytes, pipes[p][i].chunkCount)
    /\ UNCHANGED <<activeSessions, now, readyState, timers, voiceProfiles, lastFlushed>>
    /\ UNCHANGED call

\* ------------------------------------------------------ recent translations
\* addTranslation's cap on a list, and the age at which the expiry interval
\* drops a record.
maxTranslations == 50

maxAge == 600000

\* The roomKey values `${roomId}:${userType}` of one room.
RoomKeys == {"r1:caller", "r1:receiver"}

\* recentTranslations with no key.
NoTranslations == [k \in {} |-> <<>>]

\* Mutant of KeepLast: the record just pushed is dropped from a list that is
\* over the cap.
KeepLastDropsNewest(translations) ==
    IF Len(translations) > maxTranslations
    THEN SubSeq(translations, 1, Len(translations) - 1)
    ELSE translations

\* addTranslation's cap: one shift when the list is over it.
KeepLast(translations) ==
    IF Len(translations) > maxTranslations
    THEN Tail(translations)
    ELSE translations

\* recentTranslations after addTranslation of `record` under `key`.
AddTo(recent, key, record) ==
    MapSet(recent, key,
           KeepLast(Append(IF key \in DOMAIN recent THEN recent[key] ELSE <<>>,
                           record)))

\* The expiry interval's filter of one list at time t.
Unexpired(translations, t) ==
    SelectSeq(translations,
              LAMBDA record : (t - record.timestamp) * ClockMs < maxAge)

\* recentTranslations after the expiry interval has run at time t: every
\* list is filtered, and a key whose list is empty is deleted.
ExpireAt(recent, t) ==
    [k \in {q \in DOMAIN recent : Unexpired(recent[q], t) # <<>>}
       |-> Unexpired(recent[k], t)]

\* The translation store at start-up: no key, nothing added, the clock at 0.
InitTranslations ==
    /\ activeSessions = NoRooms
    /\ now = 0
    /\ readyState = [p \in Procs |-> OPEN]
    /\ outbox = [p \in Procs |-> <<>>]
    /\ proc = [p \in Procs |-> NewProcessor]
    /\ timers = [p \in Procs |-> {}]
    /\ pipes = [p \in Procs |-> <<>>]
    /\ voiceProfiles = [p \in Procs |-> {}]
    /\ lastFlushed = [p \in Procs |-> 0]
    /\ call = [fn |-> "addTranslation", recentTranslations |-> NoTranslations,
               added |-> [k \in RoomKeys |-> 0], clock |-> 0]

\* addTranslation under `key` of a record stamped with the current time,
\* while fewer than `limit` records have been added under the key. A record
\* carries the number of its arrival under the key.
AddTranslation(key, limit) ==
    /\ call.added[key] < limit
    /\ call' = [call EXCEPT
                  !.recentTranslations =
                      AddTo(@, key, [id |-> call.added[key] + 1,
                                     timestamp |-> call.clock]),
                  !.added[key] = @ + 1]
    /\ UNCHANGED <<activeSessions, now, readyState, outbox, proc, timers,
                   pipes, voiceProfiles, lastFlushed>>

\* Date.now() advances by one tick.
ClockTick ==
    /\ call.clock < MaxClock
    /\ call' = [call EXCEPT !.clock = @ + 1]
    /\ UNCHANGED <<activeSessions, now, readyState, outbox, proc, timers,
                   pipes, voiceProfiles, lastFlushed>>

\* The one-minute interval that drops the old translations.
ExpireTranslations ==
    /\ call' = [call EXCEPT !.recentTranslations = ExpireAt(@, call.clock)]
    /\ UNCHANGED <<activeSessions, now, readyState, outbox, proc, timers,
                   pipes, voiceProfiles, lastFlushed>>

\* ----------------------------------------------------------- specifications
\* The registry and the legs' registration: the room requests, the clock and
\* the sweep, and the start, stop, close and error events of both legs.
NextSession ==
    \/ \E r \in RoomIds : CreateRoom(r, "en")
    \/ \E r \in RoomIds : JoinRoom(r, "es")
    \/ \E r \in RoomIds, ut \in UserTypes : LeaveRoom(r, ut)
    \/ Tick
    \/ Sweep
    \/ \E p \in Procs, ut \in UserTypes, lang \in {"en", Null} :
          Start(p, "r1", ut, lang)
    \/ \E p \in Procs : Stop(p)
    \/ \E p \in Procs : WsError(p)
    \/ \E p \in Procs : WsClose(p)

SpecSession == Init /\ [][NextSession]_vars

\* The state after /create-room of r1 and the start events of both legs, p1
\* as the caller speaking "en" and p2 as the receiver speaking "es".
InitBuffer ==
    /\ activeSessions =
         RegisterConnection(
           RegisterConnection(MapSet(NoRooms, "r1", NewSession("en", 0)),
                              "p2", "r1", "receiver"),
           "p1", "r1", "caller")
    /\ now = 0
    /\ readyState = [p \in Procs |-> OPEN]
    /\ outbox = [p \in Procs |-> <<>>]
    /\ proc = [p \in Procs |->
                 IF p = "p1"
                 THEN HandleStart(NewProcessor, p, "r1", "caller", "en")
                 ELSE HandleStart(NewProcessor, p, "r1", "receiver", "es")]
    /\ timers = [p \in Procs |-> {}]
    /\ pipes = [p \in Procs |-> <<>>]
    /\ voiceProfiles = [p \in Procs |-> {}]
    /\ lastFlushed = [p \in Procs |-> 0]
    /\ call = NoCall

\* The audio path of leg p1: its media, stop and error events, its silence
\* timer and its suspended pipelines, and the peer's transport closing.
NextBuffer ==
    \/ Media("p1", MaxFrames)
    \/ \E h \in timers["p1"] : TimerFire("p1", h)
    \/ Stop("p1")
    \/ WsError("p1")
    \/ WsClose("p2")
    \/ \E i \in Suspended("p1"), t \in Transcripts : TranscribeDone("p1", i, t)
    \/ \E i \in Suspended("p1"), ok \in BOOLEAN : TranslateDone("p1", i, ok)
    \/ \E i \in Suspended("p1"), n \in AudioSizes \cup {0} :
          SynthesizeDone("p1", i, n)
    \/ \E i \in Suspended("p1"), n \in AudioSizes \cup {0} :
          FallbackDone("p1", i, n)

SpecBuffer == InitBuffer /\ [][NextBuffer]_vars

\* A leg's whole life with at most one segment: the room is created and
\* left, both legs start (p1 also restarts, with or without a language), p1
\* streams, stops and runs its pipeline.
NextStart ==
    \/ CreateRoom("r1", "en")
    \/ \E ut \in UserTypes : LeaveRoom("r1", ut)
    \/ \E lang \in Languages \cup {Null} : Start("p1", "r1", "caller", lang)
    \/ \E lang \in {"es", Null} : Start("p2", "r1", "receiver", lang)
    \/ Media("p1", MaxFramesStart)
    \/ \E h \in timers["p1"] : TimerFire("p1", h)
    \/ Stop("p1")
    \/ WsClose("p2")
    \/ \E i \in Suspended("p1"), t \in Transcripts : TranscribeDone("p1", i, t)
    \/ \E i \in Suspended("p1"), ok \in BOOLEAN : TranslateDone("p1", i, ok)
    \/ \E i \in Suspended("p1"), n \in AudioSizes \cup {0} :
          SynthesizeDone("p1", i, n)
    \/ \E i \in Suspended("p1"), n \in AudioSizes \cup {0} :
          FallbackDone("p1", i, n)

SpecStart == Init /\ [][NextStart]_vars

\* SpecStart with every external call returning or throwing: a suspended
\* processBuffer is resumed.
FairStart == SpecStart /\ WF_vars(PipelineStep("p1"))

\* Long streams of leg p1, every recognition coming back without a
\* transcript.
NextLong ==
    \/ Media("p1", MaxFramesLong)
    \/ \E h \in timers["p1"] : TimerFire("p1", h)
    \/ \E i \in Suspended("p1") : TranscribeDone("p1", i, "none")

SpecLong == InitBuffer /\ [][NextLong]_vars

\* One segment of leg p1 taken through its pipeline to the send, with audio
\* of every size up to MaxAudioBytes, a fallback synthesis that succeeds,
\* and the peer's transport closing at any time.
NextSend ==
    \/ Media("p1", MaxFramesSend)
    \/ \E h \in timers["p1"] : TimerFire("p1", h)
    \/ WsClose("p2")
    \/ \E i \in Suspended("p1") : TranscribeDone("p1", i, "text")
    \/ \E i \in Suspended("p1"), ok \in BOOLEAN : TranslateDone("p1", i, ok)
    \/ \E i \in Suspended("p1"), n \in 0..MaxAudioBytes :
          SynthesizeDone("p1", i, n)
    \/ \E i \in Suspended("p1"), n \in 1..MaxAudioBytes :
          FallbackDone("p1", i, n)

SpecSend == InitBuffer /\ [][NextSend]_vars

\* Noise bursts: the first BurstFrames frames of leg p1 arrive in bursts that
\* stay below minBufferDuration, and the next frame comes only after the
\* silence timer of the last of them has fired; every recognition comes back
\* without a transcript.
NextBurst ==
    \/ /\ proc["p1"].stats.packetsReceived = BurstFrames => timers["p1"] = {}
       /\ Media("p1", MaxFramesBurst)
    \/ \E h \in timers["p1"] : TimerFire("p1", h)
    \/ \E i \in Suspended("p1") : TranscribeDone("p1", i, "none")

SpecBurst == InitBuffer /\ [][NextBurst]_vars

\* One segment of leg p1 taken through its pipeline to a send on which the
\* transport can throw at any message.
NextSendThrows ==
    \/ Media("p1", MaxFramesSend)
    \/ \E h \in timers["p1"] : TimerFire("p1", h)
    \/ \E i \in Suspended("p1") : TranscribeDone("p1", i, "text")
    \/ \E i \in Suspended("p1"), ok \in BOOLEAN : TranslateDone("p1", i, ok)
    \/ \E i \in Suspended("p1"), n \in AudioSizes \cup {0} :
          SynthesizeDone("p1", i, n)
    \/ \E i \in Suspended("p1"), n \in AudioSizes : FallbackDone("p1", i, n)
    \/ \E i \in Suspended("p1"), n \in AudioSizes :
          \E k \in 1..Len(AudioMessages(n)) : SendThrows("p1", i, n, k)

SpecSendThrows == InitBuffer /\ [][NextSendThrows]_vars

\* The translation lists of two room+leg keys: records are added, time
\* passes and the expiry interval runs.
NextTranslations ==
    \/ AddTranslation("r1:caller", MaxAppends)
    \/ AddTranslation("r1:receiver", MaxOtherAppends)
    \/ ClockTick
    \/ ExpireTranslations

SpecTranslations == InitTranslations /\ [][NextTranslations]_vars

\* The variant's audio path of leg p1 with every collaborator succeeding:
\* its media and stop events, its silence timer, its suspended pipelines and
\* their paced sends.
NextPaced ==
    \/ MediaSmooth("p1", MaxFramesSmooth)
    \/ \E h \in timers["p1"] : TimerFireSmooth("p1", h)
    \/ StopSmooth("p1")
    \/ \E i \in Suspended("p1") : TranscribeDone("p1", i, "text")
    \/ \E i \in Suspended("p1") : TranslateDone("p1", i, TRUE)
    \/ \E i \in Suspended("p1"), n \in AudioSizesSmooth :
          SynthesizeDoneSmooth("p1", i, n)
    \/ \E i \in Suspended("p1") : PauseDone("p1", i, FALSE)

SpecPaced == InitBuffer /\ [][NextPaced]_vars

\* The variant's paced send with the destination's transport closing at any
\* time.
NextPacedClose ==
    \/ MediaSmooth("p1", MaxFramesSmooth)
    \/ \E h \in timers["p1"] : TimerFireSmooth("p1", h)
    \/ WsCloseSmooth("p2")
    \/ \E i \in Suspended("p1") : TranscribeDone("p1", i, "text")
    \/ \E i \in Suspended("p1") : TranslateDone("p1", i, TRUE)
    \/ \E i \in Suspended("p1"), n \in AudioSizesSmooth \cup {0} :
          SynthesizeDoneSmooth("p1", i, n)
    \/ \E i \in Suspended("p1"), throws \in BOOLEAN : PauseDone("p1", i, throws)

SpecPacedClose == InitBuffer /\ [][NextPacedClose]_vars

\* decodeMulaw called on every byte value.
NextCodec == \E mulaw \in 0..255 : DecodeMulaw(mulaw)

SpecCodec == Init /\ [][NextCodec]_vars

\* One speaker analysed repeatedly at normal volume, starting from an empty
\* cache.
NextProfile == \E pitch \in Pitches : AnalyzeVoice(pitch, Finite(0))

SpecProfile == Init /\ [][NextProfile]_vars

\* One speaker analysed repeatedly on buffers of silence of every length up
\* to MaxPcmBytes, starting from an empty cache.
NextSilence == \E len \in 0..MaxPcmBytes : AnalyzeSilence(len)

SpecSilence == Init /\ [][NextSilence]_vars

\* One speaker analysed repeatedly, on audio of several energies and on
\* buffers of silence, starting from an empty cache.
NextSmooth ==
    \/ \E pitch \in Pitches, energy \in Energies :
          AnalyzeVoice(pitch, Finite(energy))
    \/ \E len \in 0..MaxPcmBytes : AnalyzeSilence(len)

SpecSmooth == Init /\ [][NextSmooth]_vars

\* detectPitch called on audio of every period it can detect.
NextPitch == \E period \in minPeriod..maxPeriod : DetectPitch(period)

SpecPitch == Init /\ [][NextPitch]_vars

\* The frames that add up to maxBufferDuration.
FramesToMax == maxBufferDuration \div FrameMs

\* The end-to-end scenario: the room exists, leg p2 is registered as receiver
\* with a language and leg p1 as caller with "en".
InitScenario ==
    /\ activeSessions =
         RegisterConnection(
             RegisterConnection(MapSet(NoRooms, "r1", NewSession("en", 0)),
                                "p2", "r1", "receiver"),
             "p1", "r1", "caller")
    /\ now = 0
    /\ readyState = [p \in Procs |-> OPEN]
    /\ outbox = [p \in Procs |-> <<>>]
    /\ \E lang \in Languages :
         proc = [p \in Procs |->
                   IF p = "p1"
                   THEN HandleStart(NewProcessor, p, "r1", "caller", "en")
                   ELSE HandleStart(NewProcessor, p, "r1", "receiver", lang)]
    /\ timers = [p \in Procs |-> {}]
    /\ pipes = [p \in Procs |-> <<>>]
    /\ voiceProfiles = [p \in Procs |-> {}]
    /\ lastFlushed = [p \in Procs |-> 0]
    /\ call = NoCall

\* Leg p1 receives its frames one after the other, each before the silence
\* timer of the one before fires, and then no more; every collaborator
\* succeeds.
NextScenario ==
    \/ Media("p1", FramesToMax)
    \/ \E i \in Suspended("p1") : TranscribeDone("p1", i, "text")
    \/ \E i \in Suspended("p1") : TranslateDone("p1", i, TRUE)
    \/ \E i \in Suspended("p1"), n \in AudioSizes : SynthesizeDone("p1", i, n)

SpecScenario == InitScenario /\ [][NextScenario]_vars

\* ------------------------------------------------------------------- claims
\* The frames of the suspended pipelines of leg p.
InFlightFrames(p) == UNION {SeqRange(pipes[p][i].segment) : i \in Suspended(p)}

\* C1: for every leg, at most one pipeline invocation (processBuffer past its
\* guard) is in progress in every reachable state.
C1_SingleFlight == \A p \in Procs : Len(pipes[p]) <= 1

\* C2: a segment of at least minBufferMs that arrived while a pipeline was in
\* flight is not handed to a pipeline before that one completes (no suspended
\* pipeline holds a frame newer than those of another suspended pipeline),
\* and it is flushed after that one completes: with the leg idle again and
\* no further frame, the one thing that flushes it, the silence timer, is
\* still pending.
C2_DeferredSegmentFlushed ==
    \A p \in Procs :
        /\ \A i, j \in Suspended(p) :
               i # j => \A f \in SeqRange(pipes[p][j].segment) :
                            \E g \in SeqRange(pipes[p][i].segment) : f <= g
        /\ (pipes[p] = <<>> /\ proc[p].bufferDuration >= minBufferDuration)
               => timers[p] # {}

\* C3: every accepted media frame belongs to at most one flushed segment (the
\* frames of a segment handed to a pipeline are all newer than every frame
\* handed over before, and distinct), and a frame that arrives while a
\* pipeline is in flight goes to the buffer for the next segment: the
\* in-flight segments stay as they are, and a pipeline's continuation takes
\* nothing out of the buffer.
C3_FramesFlushedOnce ==
    [][\A p \in Procs :
         LET n == proc'[p].stats.packetsReceived
             accepted == n = proc[p].stats.packetsReceived + 1
             flushes == Len(pipes'[p]) = Len(pipes[p]) + 1
             newSegment == pipes'[p][Len(pipes'[p])].segment
         IN  /\ flushes =>
                  \A k \in 1..Len(newSegment) :
                      /\ newSegment[k] > lastFlushed[p]
                      /\ k > 1 => newSegment[k] > newSegment[k - 1]
             /\ (accepted /\ pipes[p] # <<>>) =>
                  /\ \A i \in Suspended(p) :
                         pipes'[p][i].segment = pipes[p][i].segment
                  /\ IF flushes
                     THEN n \in SeqRange(newSegment)
                     ELSE proc'[p].audioBuffer = Append(proc[p].audioBuffer, n)
             /\ (~accepted /\ ~flushes /\ pipes'[p] # pipes[p]) =>
                  proc'[p].audioBuffer = proc[p].audioBuffer
      ]_vars

\* C3 witness: frames that arrived while a pipeline is in flight wait in the
\* buffer, all of them newer than the in-flight segment.
C3_Witness ==
    \E p \in Procs :
        /\ Len(pipes[p]) = 1
        /\ proc[p].isProcessing
        /\ Len(proc[p].audioBuffer) >= 2
        /\ \A f \in SeqRange(proc[p].audioBuffer) : f > lastFlushed[p]
        /\ lastFlushed[p] \in SeqRange(pipes[p][1].segment)

\* Leg p accepts a media frame in this step.
Accepts(p) ==
    proc'[p].stats.packetsReceived = proc[p].stats.packetsReceived + 1

\* Leg p starts a pipeline in this step: processBuffer passes its guards.
Flushes(p) == Len(pipes'[p]) = Len(pipes[p]) + 1

\* C4: when a media frame brings bufferDuration to maxBufferDuration or more
\* while the leg is not busy, the flush happens on that same frame: a
\* pipeline starts with the whole buffer (the frame included), the buffer
\* and the duration are reset to empty and zero, and no silence timer is
\* left pending.
C4_MaxDurationFlush ==
    [][\A p \in Procs :
         (/\ Accepts(p)
          /\ ~proc[p].isProcessing
          /\ proc[p].bufferDuration + FrameMs >= maxBufferDuration)
         => /\ Flushes(p)
            /\ pipes'[p][Len(pipes'[p])].segment
                 = Append(proc[p].audioBuffer, proc'[p].stats.packetsReceived)
            /\ pipes'[p][Len(pipes'[p])].bufferLengthMs
                 = proc[p].bufferDuration + FrameMs
            /\ proc'[p].audioBuffer = <<>>
            /\ proc'[p].bufferDuration = 0
            /\ proc'[p].isProcessing
            /\ proc'[p].silenceTimeout = NoTimer
            /\ timers'[p] = {}
      ]_vars

\* C4 witness: a pipeline holds a segment of exactly maxBufferDuration, and
\* the leg's buffer is empty with no timer pending.
C4_Witness ==
    \E p \in Procs : \E i \in Suspended(p) :
        /\ pipes[p][i].bufferLengthMs = maxBufferDuration
        /\ Len(pipes[p][i].segment) * FrameMs = maxBufferDuration
        /\ proc[p].audioBuffer = <<>>
        /\ proc[p].isProcessing
        /\ timers[p] = {}

\* The silence timer of leg p fires in this step: a pending timer is gone
\* and the leg is as it was, or has flushed.
TimerFires(p) ==
    /\ timers'[p] # timers[p]
    /\ ~Accepts(p)
    /\ proc'[p] = proc[p] \/ Flushes(p)

\* C5 as stated: when the silence timer fires, the pipeline is invoked if and
\* only if the buffer is non-empty, bufferDuration is at least
\* minBufferDuration and the leg is not busy.
C5_TimerFlushIff ==
    [][\A p \in Procs :
         TimerFires(p) =>
           (Flushes(p) <=> /\ Len(proc[p].audioBuffer) > 0
                           /\ proc[p].bufferDuration >= minBufferDuration
                           /\ ~proc[p].isProcessing)
      ]_vars

\* C5 amended: when the silence timer fires, the pipeline is invoked if and
\* only if the buffer is non-empty, bufferDuration is at least
\* minBufferDuration, the leg is not busy and the leg has a language; in
\* particular a buffer below minBufferDuration followed by a silence gap
\* starts no pipeline.
C5_TimerFlushIffLanguage ==
    [][\A p \in Procs :
         TimerFires(p) =>
           (Flushes(p) <=> /\ Len(proc[p].audioBuffer) > 0
                           /\ proc[p].bufferDuration >= minBufferDuration
                           /\ ~proc[p].isProcessing
                           /\ proc[p].myLanguage # Null)
      ]_vars

\* C5 witness: the silence timer has flushed a segment of exactly
\* minBufferDuration.
C5_Witness ==
    \E p \in Procs : \E i \in Suspended(p) :
        /\ pipes[p][i].bufferLengthMs = minBufferDuration
        /\ proc[p].audioBuffer = <<>>
        /\ timers[p] = {}

\* C6: every pipeline invocation that sets isProcessing eventually clears
\* it, whichever way it exits, provided each external call returns or
\* throws.
C6_BusyEventuallyCleared ==
    \A p \in Procs : proc[p].isProcessing ~> ~proc[p].isProcessing

\* C6 witness: a pipeline of the leg has run to its send and returned, and
\* the leg is idle.
C6_Witness ==
    \E p \in Procs :
        /\ proc[p].stats.audiosSent >= 1
        /\ pipes[p] = <<>>
        /\ ~proc[p].isProcessing

\* The synthesizer of a suspended pipeline of leg p settles with n bytes of
\* audio and sendToOtherUser is called with them, its destination `other`.
SendsAudio(p, n, other) ==
    \E i \in Suspended(p) :
        /\ n > 0
        /\ pipes[p][i].otherConnection = other
        /\ SynthesizeDone(p, i, n) \/ FallbackDone(p, i, n)

\* C11: for a synthesized payload of L encoded bytes and a frame size of F,
\* with the destination transport open, sendToOtherUser emits exactly
\* ceil(L/F) media messages followed by exactly one mark message and
\* nothing after the mark; the same loop with the variant's frame size
\* gives ceil(L/F) media messages as well.
C11_ChunkCount ==
    /\ \A F \in {chunkSize, chunkSizeSmooth} :
         \A L \in 0..MaxEncoded :
            ChunkLoop(0, L, F) = Repeat("media", CeilDiv(L, F))
    /\ [][\A p \in Procs : \A other \in Procs : \A n \in 1..(MaxAudioBytes + 1) :
            (SendsAudio(p, n, other) /\ readyState[other] = OPEN)
            => /\ outbox'[other]
                    = outbox[other]
                      \o Repeat("media", CeilDiv(Base64Length(n), chunkSize))
                      \o <<"mark">>
               /\ \A q \in Procs \ {other} : outbox'[q] = outbox[q]
         ]_vars

\* C11 witness: the peer's transport holds two media messages followed by
\* one mark, the last message on it.
C11_Witness ==
    /\ outbox["p2"] = <<"media", "media", "mark">>
    /\ proc["p1"].stats.audiosSent = 1
    /\ readyState["p2"] = OPEN

\* The G.711 mu-law reference value of a byte (ITU-T G.711, as in the
\* reference expansion: complement, magnitude ((mantissa * 8 + 132) shifted
\* left by the exponent) minus 132, negative when the complement's sign bit
\* is set).
G711Reference(byte) ==
    LET inv == 255 - byte
        magnitude == ((inv % 16) * 8 + 132) * 2^((inv \div 16) % 8) - 132
    IN  IF inv >= 128 THEN -magnitude ELSE magnitude

\* C12: for every compressed byte value 0..255, decodeMulaw's per-sample
\* result equals the standard G.711 mu-law reference linear-PCM value for
\* that byte.
C12_DecodeMatchesReference ==
    call.fn = "decodeMulaw" => call.pcm = G711Reference(call.byte)

\* Profiles A and then B have been analysed for the speaker, from an empty
\* cache.
AnalysedTwo == call.fn = "analyzeVoice" /\ Len(call.analysed) = 2

\* Ten times A * 0.7 + B * 0.3 for the two analysed pitches, exactly.
TenfoldAverage == 7 * call.analysed[1] + 3 * call.analysed[2]

\* C13 as stated: after profile A and then profile B are analysed for the
\* same speaker from an empty cache, the cached pitch equals
\* round(A * 0.7 + B * 0.3), the nearest integer with a tie going up, for all
\* integer pitches in -20..20.
C13_SmoothedPitchRounded ==
    AnalysedTwo => call.cached.pitch = (TenfoldAverage + 5) \div 10

\* C13 amended: the cached pitch is an integer nearest to A * 0.7 + B * 0.3
\* (at most one half away from it); when that value lies exactly between
\* two integers the cached pitch is one of the two.
C13_SmoothedPitchNearest ==
    AnalysedTwo =>
        /\ 10 * call.cached.pitch - TenfoldAverage \in (-5)..5
        /\ call.cached.samples = 2

\* C13 witness: pitches 3 and then -2 have been analysed (A * 0.7 + B * 0.3
\* is 1.5) and the cached pitch is 1.
C13_Witness ==
    /\ AnalysedTwo
    /\ call.analysed = <<3, -2>>
    /\ call.cached.pitch = 1

\* The detected frequency sampleRate / period lies in the low-to-mid band:
\* 120 Hz <= frequency < 165 Hz.
InLowToMidBand(period) ==
    ~FrequencyBelow(period, 120) /\ FrequencyBelow(period, 165)

\* C14: for detected frequencies f1 < f2 that both lie in the low-to-mid
\* band, the pitch adjustment returned for f1 is less than or equal to the
\* one returned for f2 (f2 being the frequency just detected, f1 the
\* frequency of any longer period).
C14_PitchMonotoneInBand ==
    (call.fn = "detectPitch" /\ InLowToMidBand(call.period)) =>
        \A longer \in (call.period + 1)..maxPeriod :
            InLowToMidBand(longer) => PitchOfPeriod(longer) <= call.pitch

\* C14 witness: a frequency in the band has been detected whose adjustment
\* is above that of a lower frequency in the band.
C14_Witness ==
    /\ call.fn = "detectPitch"
    /\ InLowToMidBand(call.period)
    /\ \E longer \in (call.period + 1)..maxPeriod :
           InLowToMidBand(longer) /\ PitchOfPeriod(longer) < call.pitch

\* C15: with leg B registered with a language in the same room, an idle leg
\* A that receives 100 consecutive 20 ms frames and then no frame performs
\* exactly one flush, of a segment of 2000 ms: nothing is flushed before
\* the last frame, the last frame flushes all 100 frames and leaves no
\* silence timer that could flush again; and once the pipeline has
\* returned, transcriber, translator and synthesizer have each run exactly
\* once and the audio followed by its mark is on leg B's transport.
C15_EndToEnd ==
    LET me == proc["p1"]
        received == me.stats.packetsReceived
    IN  /\ received < FramesToMax =>
              /\ lastFlushed["p1"] = 0
              /\ pipes["p1"] = <<>>
        /\ received = FramesToMax =>
              /\ lastFlushed["p1"] = FramesToMax
              /\ me.audioBuffer = <<>>
              /\ timers["p1"] = {}
              /\ Len(pipes["p1"]) <= 1
              /\ \A i \in Suspended("p1") :
                     /\ pipes["p1"][i].bufferLengthMs = 2000
                     /\ Len(pipes["p1"][i].segment) = 100
        /\ (received = FramesToMax /\ pipes["p1"] = <<>>) =>
              /\ me.stats.transcriptions = 1
              /\ me.stats.translations = 1
              /\ me.stats.audiosSent = 1
              /\ me.stats.errors = 0
              /\ \E n \in AudioSizes : outbox["p2"] = AudioMessages(n)
              /\ outbox["p1"] = <<>>
              /\ ~me.isProcessing

\* C15 witness: the scenario has run to its end with leg B speaking another
\* language, and the audio is on leg B's transport.
C15_Witness ==
    /\ proc["p1"].stats.packetsReceived = 100
    /\ pipes["p1"] = <<>>
    /\ proc["p2"].myLanguage = "es"
    /\ proc["p1"].stats.audiosSent = 1
    /\ Len(outbox["p2"]) >= 2

\* A collaborator of a suspended pipeline of leg p fails in this step: the
\* translation client rejects, or the synthesizer rejects for the second
\* time (generateSimpleSpeech after generateHumanLikeSpeech). A rejected
\* recognition is not told apart from an empty one here: both make
\* transcribeAudioEnhanced return null.
StageFails(p) ==
    \E i \in Suspended(p) : TranslateDone(p, i, FALSE) \/ FallbackDone(p, i, 0)

\* C16: whenever the translator or the synthesizer fails during a flush,
\* stats.errors is incremented for that flush.
C16_FailuresCounted ==
    [][\A p \in Procs :
         StageFails(p) => proc'[p].stats.errors = proc[p].stats.errors + 1
      ]_vars

\* C17: in every reachable state a leg whose language is absent is not held
\* in any session slot, and such a leg never invokes the pipeline and never
\* causes any outbound message (none of its pipelines sends audio), for any
\* sequence of start, media and stop events.
C17_NoLanguageNoPresence ==
    /\ [](\A p \in Procs :
            proc[p].myLanguage = Null =>
                \A r \in DOMAIN activeSessions :
                    /\ activeSessions[r].callerConnection # p
                    /\ activeSessions[r].receiverConnection # p)
    /\ [][\A p \in Procs :
            proc[p].myLanguage = Null =>
                /\ Len(pipes'[p]) <= Len(pipes[p])
                /\ proc'[p].stats.audiosSent = proc[p].stats.audiosSent
         ]_vars

\* Leg p is registered in the session: registerConnection put it in a slot.
Registered(p, session) ==
    session.callerConnection = p \/ session.receiverConnection = p

\* The number of force-disconnect messages in a transport's outbox.
ForceDisconnects(box) ==
    Cardinality({k \in 1..Len(box) : box[k] = ForceDisconnect})

\* C7: when leg a's transport closes while leg b is registered in the same
\* session with an open transport, b's transport receives exactly one
\* force-disconnect message and the session is gone from the registry.
C7_PeerLossPropagates ==
    [][\A a \in Procs : \A b \in Procs \ {a} :
         LET r == proc[a].roomId
         IN  (/\ readyState[a] = OPEN /\ readyState'[a] = CLOSED
              /\ r \in DOMAIN activeSessions
              /\ Registered(a, activeSessions[r])
              /\ Registered(b, activeSessions[r])
              /\ readyState[b] = OPEN)
             => /\ ForceDisconnects(outbox'[b]) = ForceDisconnects(outbox[b]) + 1
                /\ r \notin DOMAIN activeSessions'
      ]_vars

\* C8: whenever a session is removed from the registry by a leave-room
\* request or by the expiry sweep (a removal with no transport closing)
\* while a leg with an open transport is registered in it, that leg is sent
\* a force-disconnect message.
C8_TeardownNotifies ==
    [][\A r \in DOMAIN activeSessions : \A b \in Procs :
         (/\ r \notin DOMAIN activeSessions'
          /\ readyState' = readyState
          /\ Registered(b, activeSessions[r])
          /\ readyState[b] = OPEN)
         => ForceDisconnects(outbox'[b]) = ForceDisconnects(outbox[b]) + 1
      ]_vars

\* The session slot registerConnection uses for a userType.
SlotOf(session, ut) ==
    IF ut = "caller" THEN session.callerConnection
    ELSE session.receiverConnection

\* The slot opposite to the one of a userType.
OppositeSlotOf(session, ut) ==
    IF ut = "caller" THEN session.receiverConnection
    ELSE session.callerConnection

\* Leg p handles a start event that carries a language and names the
\* existing room r: its connection fields change in this step.
Registers(p, r) ==
    /\ <<proc'[p].roomId, proc'[p].userType, proc'[p].myLanguage,
         proc'[p].userId, proc'[p].streamSid>>
       # <<proc[p].roomId, proc[p].userType, proc[p].myLanguage,
           proc[p].userId, proc[p].streamSid>>
    /\ proc'[p].myLanguage # Null
    /\ proc'[p].roomId = r
    /\ r \in DOMAIN activeSessions

\* C20: when the destination's transport is not open at the time
\* sendToOtherUser is called, no media and no mark message is sent and the
\* sent-audio counter is unchanged. (The destination is never absent at the
\* call: processBuffer returns before it when the peer lookup finds none.)
C20_ClosedTransportDrops ==
    [][\A p \in Procs : \A other \in Procs : \A n \in 1..(MaxAudioBytes + 1) :
         (SendsAudio(p, n, other) /\ readyState[other] # OPEN)
         => /\ outbox' = outbox
            /\ proc'[p].stats.audiosSent = proc[p].stats.audiosSent
      ]_vars

\* C20 witness: a pipeline of leg p1 went through translation and synthesis
\* and returned, the peer's transport was closed when the audio was to be
\* sent, and nothing was sent.
C20_Witness ==
    /\ proc["p1"].stats.translations = 1
    /\ pipes["p1"] = <<>>
    /\ readyState["p2"] = CLOSED
    /\ proc["p1"].stats.audiosSent = 0
    /\ outbox["p2"] = <<>>

\* A pipeline of leg p gets a usable transcript in this step and looks its
\* peer up.
LooksPeerUp(p) ==
    proc'[p].stats.transcriptions = proc[p].stats.transcriptions + 1

\* The session of leg p is absent, or the slot opposite to the leg is empty.
PeerMissing(p) ==
    \/ proc[p].roomId \notin DOMAIN activeSessions
    \/ OppositeSlotOf(activeSessions[proc[p].roomId], proc[p].userType) = Null

\* C19: when the peer lookup during a flush finds the session absent or the
\* opposite slot empty, the flush ends there: the translator and the
\* synthesizer are not invoked, no message is sent, and stats.errors is not
\* incremented.
C19_MissingPeerAbandons ==
    [][\A p \in Procs :
         (LooksPeerUp(p) /\ PeerMissing(p))
         => /\ Len(pipes'[p]) = Len(pipes[p]) - 1
            /\ \A i \in 1..Len(pipes'[p]) :
                   pipes'[p][i].pc \in {pipes[p][i].pc, pipes[p][i + 1].pc}
            /\ proc'[p].stats.translations = proc[p].stats.translations
            /\ proc'[p].stats.audiosSent = proc[p].stats.audiosSent
            /\ proc'[p].stats.errors = proc[p].stats.errors
            /\ outbox' = outbox
      ]_vars

\* C19 witness: a flush of leg p1 got its transcript and ended at the peer
\* lookup, the opposite slot being empty (leg p2 never started).
C19_Witness ==
    /\ proc["p1"].stats.transcriptions = 1
    /\ proc["p1"].stats.translations = 0
    /\ pipes["p1"] = <<>>
    /\ proc["p2"].roomId = Null
    /\ "r1" \in DOMAIN activeSessions
    /\ activeSessions["r1"].receiverConnection = Null

\* Leg p handles a start event that names room r: its connection fields
\* change in this step and its room is r afterwards.
StartsNaming(p, r) ==
    /\ <<proc'[p].roomId, proc'[p].userType, proc'[p].myLanguage,
         proc'[p].userId, proc'[p].streamSid>>
       # <<proc[p].roomId, proc[p].userType, proc[p].myLanguage,
           proc[p].userId, proc[p].streamSid>>
    /\ proc'[p].roomId = r

\* C18: a start event that names a room absent from the registry registers
\* nothing and has no side effect on the registry: no session is created
\* and no existing session is changed.
C18_AbsentRoomNoEffect ==
    [][\A p \in Procs : \A r \in RoomIds :
         (StartsNaming(p, r) /\ r \notin DOMAIN activeSessions)
         => activeSessions' = activeSessions
      ]_vars

\* C18 witness: a leg has started with a language in room r1 while r1 was
\* absent (it holds the user id of a first start and r1 is absent), beside
\* another session whose slots are empty.
C18_Witness ==
    \E p \in Procs :
        /\ proc[p].roomId = "r1"
        /\ proc[p].myLanguage # Null
        /\ proc[p].userId = UserIdOf(Null, Null)
        /\ DOMAIN activeSessions = {"r2"}
        /\ activeSessions["r2"].callerConnection = Null
        /\ activeSessions["r2"].receiverConnection = Null

\* C9: registering a leg of type X in an existing session changes only X's
\* slot: the opposite slot, both language fields and createdAt of that
\* session, and all other sessions, are unchanged.
C9_RegisterChangesOneSlot ==
    [][\A p \in Procs : \A r \in RoomIds :
         Registers(p, r) =>
           LET old == activeSessions[r]
               new == activeSessions'[r]
               ut == proc'[p].userType
           IN  /\ DOMAIN activeSessions' = DOMAIN activeSessions
               /\ SlotOf(new, ut) = p
               /\ OppositeSlotOf(new, ut) = OppositeSlotOf(old, ut)
               /\ new.creatorLanguage = old.creatorLanguage
               /\ new.participantLanguage = old.participantLanguage
               /\ new.createdAt = old.createdAt
               /\ \A q \in DOMAIN activeSessions \ {r} :
                      activeSessions'[q] = activeSessions[q]
      ]_vars

\* C9 witness: both legs have registered in r1, the second one while the
\* opposite slot was taken, and another session exists.
C9_Witness ==
    /\ DOMAIN activeSessions = RoomIds
    /\ activeSessions["r1"].callerConnection # Null
    /\ activeSessions["r1"].receiverConnection # Null
    /\ activeSessions["r1"].callerConnection
         # activeSessions["r1"].receiverConnection
    /\ activeSessions["r1"].participantLanguage # Null

\* Leg p runs cleanup on a non-empty buffer with no transport closing (a stop
\* event, or a transport error, which runs the same cleanup).
Stops(p) ==
    /\ proc[p].audioBuffer # <<>>
    /\ proc'[p].audioBuffer = <<>>
    /\ pipes' = pipes
    /\ readyState' = readyState

\* C10: after a registered leg of type X handles a stop event, its session is
\* still in the registry, the slot X was registered in is null and the
\* opposite slot is unchanged.
C10_StopDetachesSlot ==
    [][\A p \in Procs :
         LET r == proc[p].roomId
             ut == proc[p].userType
         IN  (/\ Stops(p)
              /\ r \in DOMAIN activeSessions
              /\ SlotOf(activeSessions[r], ut) = p)
             => /\ r \in DOMAIN activeSessions'
                /\ SlotOf(activeSessions'[r], ut) = Null
                /\ OppositeSlotOf(activeSessions'[r], ut)
                     = OppositeSlotOf(activeSessions[r], ut)
      ]_vars


\* C21: if sending a frame on the destination transport fails, no later
\* frame of that payload and no mark is sent, the failed frame is not
\* retried (the transport holds the media messages sent before the failure
\* and nothing more), the sent-audio counter is not incremented, and the
\* failure does not escape sendToOtherUser: processBuffer returns through
\* its finally block without counting an error.
C21_SendFailureAbandons ==
    [][\A p \in Procs : \A i \in Suspended(p) : \A n \in AudioSizes :
         \A k \in 1..Len(AudioMessages(n)) :
            SendThrows(p, i, n, k)
            => /\ outbox'[pipes[p][i].otherConnection]
                    = outbox[pipes[p][i].otherConnection]
                      \o Repeat("media", k - 1)
               /\ \A q \in Procs \ {pipes[p][i].otherConnection} :
                      outbox'[q] = outbox[q]
               /\ proc'[p].stats.audiosSent = proc[p].stats.audiosSent
               /\ proc'[p].stats.errors = proc[p].stats.errors
               /\ ~proc'[p].isProcessing
               /\ Len(pipes'[p]) = Len(pipes[p]) - 1
      ]_vars

\* C21 witness: the second send of a payload of two frames has thrown: the
\* peer's transport holds the first frame and no mark, nothing was counted
\* as sent and the pipeline has returned.
C21_Witness ==
    /\ outbox["p2"] = <<"media">>
    /\ readyState["p2"] = OPEN
    /\ proc["p1"].stats.translations = 1
    /\ proc["p1"].stats.audiosSent = 0
    /\ proc["p1"].stats.errors = 0
    /\ pipes["p1"] = <<>>
    /\ ~proc["p1"].isProcessing


\* C22: no segment handed to the pipeline is longer than maxBufferDuration,
\* after any sequence of media frames, timer firings and pipeline
\* completions.
C22_SegmentBounded ==
    \A p \in Procs : \A i \in Suspended(p) :
        pipes[p][i].bufferLengthMs <= maxBufferDuration

\* C23: a burst of frames totalling less than minBufferDuration that is
\* followed by a silence gap is discarded: once the silence timer has fired,
\* those frames (here the first BurstFrames frames of the leg) are not part
\* of any segment handed to the pipeline.
C23_BurstDiscarded ==
    \A p \in Procs : \A f \in InFlightFrames(p) : f > BurstFrames


\* C24: in every reachable state each leg has at most one pending silence
\* timer, the one its silenceTimeout field holds: a media frame cancels the
\* pending timer before any new one is armed, and a flush, a stop and a
\* transport error leave no timer pending.
C24_SingleTimer ==
    /\ [](\A p \in Procs :
            /\ Cardinality(timers[p]) <= 1
            /\ timers[p] \subseteq {proc[p].silenceTimeout})
    /\ [][\A p \in Procs :
            /\ (Accepts(p) /\ timers[p] # {}) => Cardinality(timers'[p]) <= 1
            /\ Flushes(p) => timers'[p] = {}
            /\ (Stop(p) \/ WsError(p)) => timers'[p] = {}
         ]_vars

\* C24 witness: after an earlier flush a leg has buffered several frames,
\* each of which re-armed the timer, and exactly one timer is pending.
C24_Witness ==
    \E p \in Procs :
        /\ lastFlushed[p] > 0
        /\ Len(proc[p].audioBuffer) >= 3
        /\ Cardinality(timers[p]) = 1
        /\ proc[p].silenceTimeout \in timers[p]


\* Leg p handles a stop, a transport-error or a transport-close event in
\* this step.
TearsDown(p) == Stop(p) \/ WsError(p) \/ WsClose(p)

\* C25: immediately after a leg handles a stop, transport-close or
\* transport-error event, its segment buffer is empty, its accumulated
\* duration is zero, no silence timer is pending, and the profile cache holds
\* no profile under any speaker key that this leg's analyses wrote, whatever
\* start and media events preceded.
C25_TeardownClearsLeg ==
    [][\A p \in Procs :
         TearsDown(p)
         => /\ proc'[p].audioBuffer = <<>>
            /\ proc'[p].bufferDuration = 0
            /\ timers'[p] = {}
            /\ voiceProfiles'[p] = {}
      ]_vars

\* C26: after a start event, the leg's userId is the identifier derived from
\* that event's roomId and userType.
C26_UserIdFromStart ==
    [][\A p \in Procs : \A r \in RoomIds :
         StartsNaming(p, r)
         => proc'[p].userId = UserIdOf(proc'[p].roomId, proc'[p].userType)
      ]_vars


\* C27: the profile that analyzeVoice returns, and that the pipeline passes
\* to the synthesizer, for a speaker who already has a cached profile is the
\* smoothed profile (0.7 cached / 0.3 new), equal to the profile stored in
\* the cache by that same analysis.
C27_ReturnsSmoothed ==
    (call.fn = "analyzeVoice" /\ call.before.samples > 0 /\ ~call.threw) =>
        /\ call.returned.pitch = call.cached.pitch
        /\ call.returned.energy = call.cached.energy


\* C28: when analysis fails on pathological input, including an empty PCM
\* buffer, analyzeVoice returns the neutral default profile (pitch 0, speed
\* 1.0, energy 0, gender neutral) and the profile cache is unchanged.
C28_FailureReturnsDefault ==
    (call.fn = "analyzeVoice" /\ (call.threw \/ call.bytes = 0)) =>
        /\ call.returned = DefaultProfile
        /\ call.cached = call.before

\* C29: after any sequence of successful analyses for a speaker, the cached
\* profile's pitch is an integer in -20..20 and its energy an integer in
\* -10..10.
C29_CachedInRange ==
    (call.fn = "analyzeVoice" /\ call.cached.samples > 0) =>
        /\ call.cached.pitch \in (-20)..20
        /\ ~call.cached.energy.nan
        /\ call.cached.energy.value \in (-10)..10


\* C30: a translator failure during a flush is not fatal to the segment: the
\* original transcript is passed through as the translated text, and the
\* synthesizer is still invoked with it for the peer's language (the flush
\* goes on to the synthesizer's await with the language it read from the
\* peer, the leg stays busy and no error is counted).
C30_TranslatorFailurePassesThrough ==
    [][\A p \in Procs : \A i \in Suspended(p) :
         TranslateDone(p, i, FALSE)
         => /\ Len(pipes'[p]) = Len(pipes[p])
            /\ pipes'[p][i].pc = "synthesize"
            /\ ~pipes'[p][i].translated
            /\ pipes'[p][i].otherUserLanguage = pipes[p][i].otherUserLanguage
            /\ pipes'[p][i].otherUserLanguage \in Languages
            /\ pipes'[p][i].otherConnection = pipes[p][i].otherConnection
            /\ proc'[p].isProcessing
            /\ proc'[p].stats.errors = proc[p].stats.errors
      ]_vars

\* C30 witness: the translation of leg p1's transcript from "en" to "es" was
\* rejected, and the flush waits for the synthesizer with the transcript as
\* its text and "es" as its language.
C30_Witness ==
    \E i \in Suspended("p1") :
        /\ proc["p1"].myLanguage = "en"
        /\ proc["p1"].stats.translations = 1
        /\ pipes["p1"][i].pc = "synthesize"
        /\ ~pipes["p1"][i].translated
        /\ pipes["p1"][i].otherUserLanguage = "es"


\* The list recentTranslations holds under a key (none: the empty list).
ListOf(recent, key) == IF key \in DOMAIN recent THEN recent[key] ELSE <<>>

\* C31: for every room+leg key, the recent-translation list never holds more
\* than 50 records after any sequence of appends; records stay in arrival
\* order, and an append to a full list removes exactly the oldest record
\* (an append to a list that is not full removes none, and no append touches
\* the list of another key).
C31_RollingWindow ==
    /\ [](\A key \in DOMAIN call.recentTranslations :
            LET list == call.recentTranslations[key]
            IN  /\ Len(list) <= maxTranslations
                /\ \A k \in 2..Len(list) : list[k - 1].id < list[k].id)
    /\ [][\A key \in RoomKeys :
            call'.added[key] = call.added[key] + 1
            => LET list == ListOf(call.recentTranslations, key)
                   record == [id |-> call'.added[key], timestamp |-> call.clock]
               IN  /\ ListOf(call'.recentTranslations, key)
                        = IF Len(list) = maxTranslations
                          THEN Append(Tail(list), record)
                          ELSE Append(list, record)
                   /\ \A other \in RoomKeys \ {key} :
                          ListOf(call'.recentTranslations, other)
                            = ListOf(call.recentTranslations, other)
         ]_vars

\* C31 witness: a key holds 50 records, the oldest two added under it are
\* gone and the newest is the last, while the other key holds one record.
C31_Witness ==
    /\ DOMAIN call.recentTranslations = RoomKeys
    /\ Len(call.recentTranslations["r1:caller"]) = maxTranslations
    /\ call.recentTranslations["r1:caller"][1].id = 3
    /\ call.recentTranslations["r1:caller"][maxTranslations].id = 52
    /\ Len(call.recentTranslations["r1:receiver"]) = 1


\* C32: an expiry sweep removes exactly the sessions whose age exceeds the
\* TTL: afterwards no session older than the TTL is in the registry and
\* every session not older than the TTL is still present and unchanged,
\* whether or not legs are attached.
C32_SweepRemovesExpired ==
    [][Sweep =>
         /\ \A r \in DOMAIN activeSessions' :
                (now - activeSessions'[r].createdAt) * TickMs <= oneHour
         /\ \A r \in DOMAIN activeSessions :
                (now - activeSessions[r].createdAt) * TickMs <= oneHour
                => /\ r \in DOMAIN activeSessions'
                   /\ activeSessions'[r] = activeSessions[r]
         /\ DOMAIN activeSessions' \subseteq DOMAIN activeSessions
      ]_vars

\* C32 witness: two hours after start-up the room a leg with an open
\* transport started in is gone from the registry, while a session that is
\* exactly one hour old is still there.
C32_Witness ==
    /\ now = 2
    /\ DOMAIN activeSessions = {"r2"}
    /\ activeSessions["r2"].createdAt = 1
    /\ \E p \in Procs :
          /\ proc[p].roomId = "r1"
          /\ proc[p].myLanguage # Null
          /\ readyState[p] = OPEN
    /\ \A p \in Procs : readyState[p] = OPEN


\* C33: in every reachable state of a leg, bufferDuration equals 20 times the
\* number of chunks in the segment buffer.
C33_DurationTracksBuffer ==
    \A p \in Procs : proc[p].bufferDuration = FrameMs * Len(proc[p].audioBuffer)

\* C33 witness: a leg has flushed a segment, been cleaned up, and has
\* buffered frames again.
C33_Witness ==
    \E p \in Procs :
        /\ lastFlushed[p] > 0
        /\ voiceProfiles[p] = {}
        /\ Len(proc[p].audioBuffer) >= 2
        /\ proc[p].bufferDuration = FrameMs * Len(proc[p].audioBuffer)


\* Leg p has run cleanup since its last flush (a stop or a transport error:
\* the profile the flush cached is evicted) and has not flushed since.
CleanedUp(p) == lastFlushed[p] > 0 /\ voiceProfiles[p] = {}

\* C34: after a leg has handled a stop event (or a transport close/error
\* cleanup), that leg starts no new pipeline and sends no further media or
\* mark message to its peer, even if a pipeline was in flight at that moment
\* or further media frames arrive afterwards.
C34_StoppedLegSilent ==
    [][\A p \in Procs :
         CleanedUp(p)
         => /\ ~Flushes(p)
            /\ proc'[p].stats.audiosSent = proc[p].stats.audiosSent
            /\ \A q \in Procs \ {p} :
                   Len(outbox'[q]) > Len(outbox[q])
                   => outbox'[q][Len(outbox'[q])] = ForceDisconnect
      ]_vars


\* C35: on a destination transport, the media frames of one utterance from a
\* sending leg are contiguous and are followed by that utterance's mark
\* before any media frame of another utterance from the same sending leg
\* appears (the message after a media frame belongs to the same utterance),
\* under any interleaving of the paced send with media, stop and cleanup
\* events.
C35_UtterancesContiguous ==
    \A q \in Procs : \A k \in 1..(Len(outbox[q]) - 1) :
        outbox[q][k].event = "media"
        => outbox[q][k + 1].utterance = outbox[q][k].utterance

\* C36: no media or mark message is sent on a destination transport that is
\* not open at the moment of that send, including when the destination
\* closes during the pauses of a paced send.
C36_NoSendOnClosed ==
    [][\A q \in Procs :
         Len(outbox'[q]) > Len(outbox[q]) => readyState[q] = OPEN
      ]_vars


\* C37: the destination chosen by a leg's peer lookup is never that leg
\* itself: in every reachable state the two slots of a session do not hold
\* the same processor, for any sequence of start events with any leg types.
C37_SlotsDistinct ==
    \A r \in DOMAIN activeSessions :
        activeSessions[r].callerConnection # Null
        => activeSessions[r].callerConnection
             # activeSessions[r].receiverConnection


\* C38: for every byte value 0..255 the decoded sample lies in the signed
\* 16-bit range -32768..32767, and decoding a byte and then the byte with its
\* top bit flipped gives values of equal magnitude and opposite sign.
C38_SampleInInt16AndSymmetric ==
    /\ [](call.fn = "decodeMulaw" => call.pcm \in -32768..32767)
    /\ [][(/\ call.fn = "decodeMulaw"
           /\ call'.fn = "decodeMulaw"
           /\ call'.byte = (call.byte + 128) % 256)
          => call'.pcm = -call.pcm]_vars

\* The byte of largest magnitude has been decoded.
C38_Witness ==
    /\ call.fn = "decodeMulaw"
    /\ call.byte = 0
    /\ call.pcm = -32256


\* C39: over the whole searched lag range (periods 16..160 samples at
\* 8000 Hz, i.e. 50 to 500 Hz) the pitch adjustment is monotonically
\* non-decreasing in the detected frequency, including across the band
\* boundaries at 120, 165 and 210 Hz: a detection at a shorter period than
\* the one before does not return a lower adjustment.
C39_PitchMonotone ==
    [][(/\ call.fn = "detectPitch"
        /\ call'.fn = "detectPitch"
        /\ call'.period < call.period)
       => call'.pitch >= call.pitch]_vars

====
